---- MODULE Spec2Model ----
(***************************************************************************)
(* Verification model of the code-graph indexing engine:                   *)
(*   - MultiModelZaiClient, the multi-provider task scheduler              *)
(*   - IndexCodeService / Neo4jGraphRepository, the indexing pipeline      *)
(*   - WatchFilesService, the debounced file watcher                       *)
(* Each component has its own specification over the shared variables.     *)
(***************************************************************************)
EXTENDS Integers, Sequences, FiniteSets, TLC

(***************************************************************************)
(* Task scheduler: MultiModelZaiClient                                     *)
(***************************************************************************)

\* Number of generateDescription calls made by the environment.
MaxTasks == 3
\* The provider pools the client is constructed with (configs, as limits in
\* pool order); every limit is positive, as in the default configuration.
PoolConfigs == {<<1>>, <<1, 1>>, <<2, 1>>, <<1, 2>>}
\* private readonly maxRetries = 3
maxRetries == 3

Tasks == 1..MaxTasks

\* What one call of fetch (and the decoding of its answer) can end in.
Outcomes == {"text", "notext", "badjson", "retryable", "fatal", "throw"}

VARIABLES
    apiKey,        \* TRUE when the client was constructed with a non-empty key
    pool,          \* slot index -> [limit, active]
    queue,         \* sequence of pending tasks (task ids)
    retries,       \* task -> task.retries
    running,       \* set of <<task, slot>>: executeTask calls awaiting fetch
    timers,        \* task -> number of pending setTimeout callbacks holding it
    resolveCalls,  \* task -> number of times task.resolve was called
    result,        \* task -> "none" | "text" | "null": value the caller received
    submitted,     \* task -> TRUE once generateDescription was called for it
    queuedOnce,    \* task -> TRUE once the task was pushed on the queue
    execs          \* task -> number of executeTask calls made for it

schedVars == <<apiKey, pool, queue, retries, running, timers, resolveCalls,
               result, submitted, queuedOnce, execs>>

\* this.pool.length, and the indices of the pool.
NumProviders == Len(pool)
Slots == 1..NumProviders

VARIABLES
    content,         \* file -> the source text the file holds ("Absent": no file)
    graph,           \* the committed graph in the store
    tx,              \* the open executeBatch transaction: [active, g]
    jobs,            \* InMemoryJobStore: job id -> IndexJob
    job,             \* id of the latest job created (0: none yet)
    pc,              \* where indexDirectory stands
    files,           \* const files = await collectFiles(absPath)
    idx,             \* loop index of the current phase
    importsMap,      \* const importsMap = await preScanAll(files)
    allParsedFiles,  \* sequence of [path, content] that indexFile returned
    parsed,          \* source text indexFile read and parsed in the current call
    callBase,        \* history: the graph when the current indexFile call began
    lastCall,        \* history: [file, content, outcome, base, dirty] of the last
                     \* indexFile call of the write loop
    failCause,       \* history: job id -> what made the job failed
    attempts,        \* history: write attempts ended in the current job
    descRequests,    \* history: [req, stored]: symbols describeFile requested in
                     \* the current call; whether it went on to store all hashes
    reindexSame,     \* history: the current call re-indexes an enriched file unchanged
    indexed,         \* history: file -> [content, enriched] of its last committed write
    runClean,        \* history: no read, store or provider failure in the current run
    runs,            \* history: job id -> [done, clean, content, nodes, edges] of
                     \* the run, kept until the run after the next starts
    runLog,          \* history: the steps of the current run in the order they
                     \* were taken, each [step, file, ok]
    faults           \* history: read, store and provider failures so far

indexVars == <<content, graph, tx, jobs, job, pc, files, idx, importsMap,
               allParsedFiles, parsed, callBase, lastCall, failCause, attempts,
               descRequests, reindexSame, indexed, runClean, runs, runLog, faults>>

VARIABLES
    now,             \* the clock, in ms
    watchers,        \* this.watchers: the watched roots
    importsMapCache, \* this.importsMapCache: the roots holding an import map
    debounceTimers,  \* this.debounceTimers: path -> the timer it holds, or NoTimer
    liveTimers,      \* the setTimeout timers neither fired nor cleared
    inflight,        \* path -> [index, remove]: actions started and not ended
    lastEvent,       \* history: path -> time of its last accepted event (-1: none)
    series,          \* history: path -> [events, startedAt, pure, invocations,
                     \* removals, invokedAt, last] of
                     \* the current series of events less than DEBOUNCE_MS apart
    subscriptions    \* history: root -> number of chokidar watchers open on it

watchVars == <<now, watchers, importsMapCache, debounceTimers, liveTimers, inflight,
               lastEvent, series, subscriptions>>

VARIABLES
    resolveCall,     \* the arguments of a resolveSymbol call: [name, imports, path, importsMap]
    resolveResult    \* [done, location]: what the call returned, once it has

resolveVars == <<resolveCall, resolveResult>>

VARIABLES
    store,           \* the graph the repository operations act on
    tree,            \* file -> the source text the file holds ("Absent": no file)
    lastOp,          \* history: [op, file]: the last operation and the file it was for
    listed           \* [done, paths]: what the last listRepositories returned

repoVars == <<store, tree, lastOp, listed>>

VARIABLES
    lastEnd,         \* history: [task, outcome, exec]: the executeTask call that ended
                     \* last, how its fetch ended, and which execution of the task it was
    lastAction       \* history: [path, ok]: the path of the watcher action that ended
                     \* last and whether indexFile or removeFile returned (ok) or threw

outcomeVars == <<lastEnd, lastAction>>

VARIABLES
    tasks,           \* limitConcurrency: tasks.length, the number of task factories
    concurrency,     \* limitConcurrency: the concurrency argument
    activeTasks,     \* activeTasks.length: the tasks called so far, in array order
    results,         \* results: the tasks whose promise has fulfilled, in that order
    limitPc          \* where the call stands: "idle", "race", "all", "returned"

limitVars == <<tasks, concurrency, activeTasks, results, limitPc>>

VARIABLES
    batchTx,         \* this.batchTx: the batch whose transaction it holds (0: null)
    batchPc,         \* batch -> where its executeBatch call stands
    issued,          \* batch -> number of queries its callback has issued
    queryLog         \* history: the set of [batch, tx]: a query of the batch's
                     \* callback ran in transaction tx (0: outside any transaction)

batchVars == <<batchTx, batchPc, issued, queryLog>>

\* The scheduler state that processQueue and executeTask touch, as one record.
SchedState == [pool |-> pool, queue |-> queue, running |-> running, execs |-> execs]

\* executeTask up to its first await: slot.active++ and the request is sent.
executeTaskStart(s, task, i) ==
    [s EXCEPT !.pool[i].active = @ + 1,
              !.running = @ \cup {<<task, i>>},
              !.execs[task] = @ + 1]

\* Mutant of processQueueFrom: the capacity test is off by one (<=).
RECURSIVE processQueueFrom_OffByOne(_, _)
processQueueFrom_OffByOne(s, i) ==
    IF i > NumProviders THEN s
    ELSE IF s.pool[i].active <= s.pool[i].limit
         THEN IF s.queue = <<>>
              THEN s
              ELSE processQueueFrom_OffByOne(
                       executeTaskStart([s EXCEPT !.queue = Tail(@)], Head(s.queue), i),
                       i + 1)
         ELSE processQueueFrom_OffByOne(s, i + 1)

\* Mutant of processQueueFrom: the head is read (queue[0]) but not shifted.
RECURSIVE processQueueFrom_NoShift(_, _)
processQueueFrom_NoShift(s, i) ==
    IF i > NumProviders THEN s
    ELSE IF s.pool[i].active < s.pool[i].limit
         THEN IF s.queue = <<>>
              THEN s
              ELSE processQueueFrom_NoShift(executeTaskStart(s, Head(s.queue), i), i + 1)
         ELSE processQueueFrom_NoShift(s, i + 1)

\* Mutant of processQueueFrom: the task is taken from the tail of the queue
\* (pop) instead of the head (shift).
RECURSIVE processQueueFrom_Pop(_, _)
processQueueFrom_Pop(s, i) ==
    IF i > NumProviders THEN s
    ELSE IF s.pool[i].active < s.pool[i].limit
         THEN IF s.queue = <<>>
              THEN s
              ELSE processQueueFrom_Pop(
                       executeTaskStart([s EXCEPT !.queue = SubSeq(@, 1, Len(@) - 1)],
                                        s.queue[Len(s.queue)], i),
                       i + 1)
         ELSE processQueueFrom_Pop(s, i + 1)

\* Mutant of processQueueFrom: a slot counts as full one task early.
RECURSIVE processQueueFrom_Strict(_, _)
processQueueFrom_Strict(s, i) ==
    IF i > NumProviders THEN s
    ELSE IF s.pool[i].active + 1 < s.pool[i].limit
         THEN IF s.queue = <<>>
              THEN s
              ELSE processQueueFrom_Strict(
                       executeTaskStart([s EXCEPT !.queue = Tail(@)], Head(s.queue), i),
                       i + 1)
         ELSE processQueueFrom_Strict(s, i + 1)

\* The for-loop of processQueue from slot i on: every slot with spare
\* capacity takes the head of the queue; an empty queue ends the loop.
RECURSIVE processQueueFrom(_, _)
processQueueFrom(s, i) ==
    IF i > NumProviders THEN s
    ELSE IF s.pool[i].active < s.pool[i].limit
         THEN IF s.queue = <<>>
              THEN s
              ELSE processQueueFrom(
                       executeTaskStart([s EXCEPT !.queue = Tail(@)], Head(s.queue), i),
                       i + 1)
         ELSE processQueueFrom(s, i + 1)

processQueue(s) ==
    IF s.queue = <<>> THEN s ELSE processQueueFrom(s, 1)

\* Writes a scheduler state record back to the variables.
SetSched(s) ==
    /\ pool' = s.pool
    /\ queue' = s.queue
    /\ running' = s.running
    /\ execs' = s.execs

\* generateDescription(prompt): without a key the caller gets null at once;
\* otherwise the task is pushed and the queue is drained.
generateDescription(t) ==
    /\ ~submitted[t]
    /\ \A u \in Tasks : u < t => submitted[u]
    /\ submitted' = [submitted EXCEPT ![t] = TRUE]
    /\ IF ~apiKey
       THEN /\ resolveCalls' = [resolveCalls EXCEPT ![t] = @ + 1]
            /\ result' = [result EXCEPT ![t] = "null"]
            /\ UNCHANGED <<pool, queue, running, execs, queuedOnce>>
       ELSE /\ SetSched(processQueue([SchedState EXCEPT !.queue = Append(@, t)]))
            /\ queuedOnce' = [queuedOnce EXCEPT ![t] = TRUE]
            /\ UNCHANGED <<resolveCalls, result>>
    /\ UNCHANGED <<apiKey, retries, timers>>

\* Mutant of willRetry: a failed task is never retried.
willRetry_Never(t) == retries[t] < 0

\* Mutant of willRetry: the retry test is off by one (<=).
willRetry_OffByOne(t) == retries[t] <= maxRetries

\* Whether handleTaskFailure schedules a retry (task.retries < maxRetries).
willRetry(t) == retries[t] < maxRetries

\* Mutant of reachesHandleTaskFailure: every response that is not ok is retried.
reachesHandleTaskFailure_AnyError(o) == o \in {"retryable", "throw", "badjson", "fatal"}

\* Which outcomes reach handleTaskFailure: 429 / >= 500, a thrown fetch, or a
\* throw while decoding an ok response (caught by the same catch block).
reachesHandleTaskFailure(o) == o \in {"retryable", "throw", "badjson"}

\* The continuation of executeTask after fetch settles, with its finally
\* block: resolve or handleTaskFailure, then slot.active-- and processQueue.
executeTaskFinish(t, i, o) ==
    /\ <<t, i>> \in running
    /\ IF reachesHandleTaskFailure(o)
       THEN IF willRetry(t)
            THEN /\ retries' = [retries EXCEPT ![t] = @ + 1]
                 /\ timers' = [timers EXCEPT ![t] = @ + 1]
                 /\ UNCHANGED <<resolveCalls, result>>
            ELSE /\ resolveCalls' = [resolveCalls EXCEPT ![t] = @ + 1]
                 /\ result' = [result EXCEPT ![t] = "null"]
                 /\ UNCHANGED <<retries, timers>>
       ELSE /\ resolveCalls' = [resolveCalls EXCEPT ![t] = @ + 1]
            /\ result' = [result EXCEPT ![t] = IF o = "text" THEN "text" ELSE "null"]
            /\ UNCHANGED <<retries, timers>>
    /\ SetSched(processQueue([SchedState EXCEPT
                                 !.pool[i].active = @ - 1,
                                 !.running = @ \ {<<t, i>>}]))
    /\ UNCHANGED <<apiKey, submitted, queuedOnce>>

\* The setTimeout callback of handleTaskFailure: push the task, drain.
retryTimerFires(t) ==
    /\ timers[t] > 0
    /\ timers' = [timers EXCEPT ![t] = @ - 1]
    /\ SetSched(processQueue([SchedState EXCEPT !.queue = Append(@, t)]))
    /\ UNCHANGED <<apiKey, retries, resolveCalls, result, submitted, queuedOnce>>

SchedStart(keys, configs) ==
    /\ apiKey \in keys
    /\ \E lim \in configs :
          pool = [i \in DOMAIN lim |-> [limit |-> lim[i], active |-> 0]]
    /\ queue = <<>>
    /\ retries = [t \in Tasks |-> 0]
    /\ running = {}
    /\ timers = [t \in Tasks |-> 0]
    /\ resolveCalls = [t \in Tasks |-> 0]
    /\ result = [t \in Tasks |-> "none"]
    /\ submitted = [t \in Tasks |-> FALSE]
    /\ queuedOnce = [t \in Tasks |-> FALSE]
    /\ execs = [t \in Tasks |-> 0]

SchedInit == SchedStart(BOOLEAN, PoolConfigs)

\* The scheduler at rest, for the specifications of the other components.
SchedIdle == SchedStart({FALSE}, {CHOOSE c \in PoolConfigs : TRUE})

Submit ==
    /\ \E t \in Tasks : generateDescription(t)
    /\ UNCHANGED <<indexVars, watchVars, resolveVars, repoVars, outcomeVars, limitVars, batchVars>>

\* The provider call of task t returns or throws.
TaskEndsFor(t) ==
    /\ \E i \in Slots, o \in Outcomes : executeTaskFinish(t, i, o)
    /\ UNCHANGED <<indexVars, watchVars, resolveVars, repoVars, outcomeVars, limitVars, batchVars>>

\* A backoff timer holding task t fires.
TimerFiresFor(t) ==
    /\ retryTimerFires(t)
    /\ UNCHANGED <<indexVars, watchVars, resolveVars, repoVars, outcomeVars, limitVars, batchVars>>

TaskEnds == \E t \in Tasks : TaskEndsFor(t)
TimerFires == \E t \in Tasks : TimerFiresFor(t)

SchedNext == Submit \/ TaskEnds \/ TimerFires

\* No executeTask call has ended.
NoEnd == [task |-> 0, outcome |-> "none", exec |-> 0]
\* No watcher action has ended.
NoAction == [path |-> "", ok |-> TRUE]

\* The provider call of a task returns or throws, and how it ended is
\* recorded.
TaskEndsRecorded ==
    /\ \E t \in Tasks, i \in Slots, o \in Outcomes :
          /\ executeTaskFinish(t, i, o)
          /\ lastEnd' = [task |-> t, outcome |-> o, exec |-> execs[t]]
          /\ UNCHANGED lastAction
    /\ UNCHANGED <<indexVars, watchVars, resolveVars, repoVars, limitVars, batchVars>>

SchedOutcomeNext == Submit \/ TaskEndsRecorded \/ TimerFires

(***************************************************************************)
(* Indexing pipeline: IndexCodeService over Neo4jGraphRepository           *)
(***************************************************************************)

\* Number of indexDirectory runs the environment starts.
MaxJobs == 2

RepoPath == "/r"
FileA == "/r/a.ts"
FileB == "/r/d/b.ts"
Files == {FileA, FileB}

\* A second repository, holding one file.
OtherRepo == "/s"
FileC == "/s/c.ts"

\* The repoPath argument indexFile is called with for file f: the root the
\* file was collected or watched under.
repoOf(f) == IF f = FileC THEN OtherRepo ELSE RepoPath

\* dirname(filePath)
dirname(f) == IF f = FileA THEN "/r" ELSE IF f = FileC THEN "/s" ELSE "/r/d"

\* The directories between the repository root and the file, outermost
\* first: relative(repoPath, filePath), dirname, split("/"), resolve.
DirChain(f) == IF f = FileB THEN <<"/r/d">> ELSE <<>>

\* Source texts a file can hold.  "BadSyntax" makes parseSource throw (in
\* parse and in preScan alike); "BadExtract" makes parse throw after
\* parseSource succeeded, so preScan accepts it.
ContentsOf(f) ==
    IF f = FileA THEN {"A1", "A2", "BadSyntax", "BadExtract"}
    ELSE {"B1", "Absent"}

Fn(n, l, a, src) == [name |-> n, lineNumber |-> l, args |-> a, source |-> src]
Cls(n, l, b, src) ==
    [name |-> n, lineNumber |-> l, bases |-> b, implements |-> <<>>, source |-> src]
Var(n, l) == [name |-> n, lineNumber |-> l]
Imp(n, src) == [name |-> n, source |-> src, alias |-> ""]
Call(n, l, caller) == [name |-> n, lineNumber |-> l, callerName |-> caller]

\* parser.parse(sourceCode, filePath): the ParsedFile of each source text.
\* "A1" declares foo(x, y) and bar, imports baz from ./d/b, and bar calls
\* foo, baz and the undeclared log; its class K extends and implements Base.  "A2" declares foo(x) with a nested
\* function baz, imports baz from ./d/b as well, and bar calls baz.  "B1"
\* declares baz, which calls foo, and class Base.  "C1", the file of the
\* second repository, declares a class Base too and imports from ./d/b.
parse(c) ==
    CASE c = "A1" ->
           [functions |-> <<Fn("foo", 1, <<"x", "y">>, "A1.foo"), Fn("bar", 3, <<>>, "A1.bar")>>,
            classes   |-> <<[Cls("K", 10, <<"Base">>, "A1.K") EXCEPT !.implements = <<"Base">>]>>,
            variables |-> <<Var("v", 20)>>,
            imports   |-> <<Imp("baz", "./d/b")>>,
            calls     |-> <<Call("foo", 4, "bar"), Call("baz", 5, "bar"), Call("log", 6, "bar")>>,
            source    |-> "A1"]
      [] c = "A2" ->
           [functions |-> <<Fn("foo", 1, <<"x">>, "A2.foo"), Fn("baz", 2, <<>>, "A2.baz"),
                            Fn("bar", 3, <<>>, "A2.bar")>>,
            classes   |-> <<>>,
            variables |-> <<>>,
            imports   |-> <<Imp("baz", "./d/b")>>,
            calls     |-> <<Call("baz", 5, "bar")>>,
            source    |-> "A2"]
      [] c = "B1" ->
           [functions |-> <<Fn("baz", 1, <<>>, "B1.baz")>>,
            classes   |-> <<Cls("Base", 5, <<>>, "B1.Base")>>,
            variables |-> <<>>,
            imports   |-> <<>>,
            calls     |-> <<Call("foo", 2, "baz")>>,
            source    |-> "B1"]
      [] c = "C1" ->
           [functions |-> <<>>,
            classes   |-> <<Cls("Base", 1, <<>>, "C1.Base")>>,
            variables |-> <<>>,
            imports   |-> <<Imp("baz", "./d/b")>>,
            calls     |-> <<>>,
            source    |-> "C1"]

\* parser.parse throws on the first set of texts.  parseSource, the first call
\* of both parse and preScan, throws on "BadSyntax", so preScan throws when
\* its group holds such a text.
parseThrows(c) == c \in {"BadSyntax", "BadExtract"}
parseSourceThrows(c) == c = "BadSyntax"

\* parser.preScan for one file: the declared function and class names with
\* their lines, functions first.
preScanFile(c) ==
    IF parseThrows(c) THEN <<>>
    ELSE [k \in 1..Len(parse(c).functions) |->
              [name |-> parse(c).functions[k].name, lineNumber |-> parse(c).functions[k].lineNumber]]
         \o [k \in 1..Len(parse(c).classes) |->
              [name |-> parse(c).classes[k].name, lineNumber |-> parse(c).classes[k].lineNumber]]

Names == {"foo", "bar", "baz", "K", "Base", "log"}

\* computeHash: sha256 of the text, taken to be collision free.
computeHash(text) == <<"sha256", text>>
NoHash == <<"none">>

\* The property graph.  A node is its label and key properties; an edge is
\* its type, end nodes and (for CALLS) the line_number it is merged on.

Node(label, name, path, line, fn) ==
    [label |-> label, name |-> name, path |-> path, line |-> line, fn |-> fn]
RepositoryNode(p) == Node("Repository", "", p, 0, "")
DirectoryNode(p) == Node("Directory", "", p, 0, "")
FileNode(p) == Node("File", "", p, 0, "")
ModuleNode(n) == Node("Module", n, "", 0, "")
FunctionNode(n, p, l) == Node("Function", n, p, l, "")
ClassNode(n, p, l) == Node("Class", n, p, l, "")
VariableNode(n, p, l) == Node("Variable", n, p, l, "")
ParameterNode(n, f, p) == Node("Parameter", n, p, 0, f)

Edge(type, a, b, line) == [type |-> type, from |-> a, to |-> b, line |-> line]

EmptyGraph == [nodes |-> {}, edges |-> {}, hash |-> <<>>]

\* MERGE (n:label {key}) SET ...: creates the node when no node has the key;
\* content_hash is not among the properties set.
mergeNode(g, n) ==
    IF n \in g.nodes THEN g
    ELSE [nodes |-> g.nodes \cup {n},
          edges |-> g.edges,
          hash  |-> [m \in g.nodes \cup {n} |-> IF m = n THEN NoHash ELSE g.hash[m]]]

\* Mutant of mergeRelationship: the relationship properties are not set.
mergeRelationship_NoProps(g, A, B, type, line) ==
    [g EXCEPT !.edges = @ \cup {Edge(type, ab[1], ab[2], 0) : ab \in A \X B}]

\* MATCH (a ...), (b ...) MERGE (a)-[:type]->(b) for the matched node sets.
mergeRelationship(g, A, B, type, line) ==
    [g EXCEPT !.edges = @ \cup {Edge(type, ab[1], ab[2], line) : ab \in A \X B}]

\* MATCH patterns used by the queries, evaluated on graph g.
MatchLabel(g, label) == {n \in g.nodes : n.label = label}
MatchPath(g, label, path) == {n \in MatchLabel(g, label) : n.path = path}
MatchName(g, label, name) == {n \in MatchLabel(g, label) : n.name = name}
MatchNamePath(g, label, name, path) == {n \in MatchPath(g, label, path) : n.name = name}

\* DETACH DELETE of a node set: the nodes and every edge touching them.
detachDelete(g, D) ==
    [nodes |-> g.nodes \ D,
     edges |-> {e \in g.edges : e.from \notin D /\ e.to \notin D},
     hash  |-> [m \in g.nodes \ D |-> g.hash[m]]]

\* Mutant of deleteFileNodes: the second query (the File node) is missing.
deleteFileNodes_KeepFile(g, filePath) ==
    detachDelete(g, {e.to : e \in {x \in g.edges :
                          x.type = "CONTAINS" /\ x.from \in MatchPath(g, "File", filePath)}})

\* deleteFileNodes: MATCH (f:File {path})-[:CONTAINS]->(n) DETACH DELETE n,
\* then MATCH (f:File {path}) DETACH DELETE f.
deleteFileNodes(g, filePath) ==
    LET contained == {e.to : e \in {x \in g.edges :
                          x.type = "CONTAINS" /\ x.from \in MatchPath(g, "File", filePath)}}
        g1 == detachDelete(g, contained)
    IN  detachDelete(g1, MatchPath(g1, "File", filePath))

\* getContentHash(label, {path, name}): the content_hash of the first row, or
\* null (NoHash) when there is no row or the property is not set.
getContentHash(g, M) ==
    IF M = {} THEN NoHash ELSE g.hash[CHOOSE n \in M : TRUE]

\* setNodeEmbedding: MATCH (n ...) SET embedding, description, content_hash.
setNodeEmbedding(g, M, h) ==
    [g EXCEPT !.hash = [m \in g.nodes |-> IF m \in M THEN h ELSE g.hash[m]]]

\* The symbols describeFile enriches: every function and class that has a
\* source text, then the file itself (processFile).
Symbols(c, f) ==
    [k \in 1..Len(parse(c).functions) |->
        [label |-> "Function", name |-> parse(c).functions[k].name,
         text |-> parse(c).functions[k].source]]
    \o [k \in 1..Len(parse(c).classes) |->
        [label |-> "Class", name |-> parse(c).classes[k].name,
         text |-> parse(c).classes[k].source]]
    \o <<[label |-> "File", name |-> "", text |-> parse(c).source]>>

\* The nodes a symbol's key ({path, name}, or {path} for the file) matches.
SymbolMatch(g, sym, f) ==
    IF sym.label = "File" THEN MatchPath(g, "File", f)
    ELSE MatchNamePath(g, sym.label, sym.name, f)

\* Mutant of gateOpen: the stored hash is not compared.
gateOpen_Always(g, M, text) == TRUE

\* The content-hash gate of processSymbol / processFile / describeDirectory:
\* TRUE when the stored hash differs from the computed one (regenerate).
gateOpen(g, M, text) == getContentHash(g, M) # computeHash(text)

\* What generateDescription gives processSymbol (a text, null, or a throw)
\* and what generateEmbedding gives it (a vector or a throw).
DescriberResults == {"text", "null", "throw"}
EmbedderResults == {"vector", "throw"}

\* Whether processSymbol / processFile / describeDirectory reach their
\* setNodeEmbedding call: the description is not null and nothing threw.
reachesStore(d, e) == d = "text" /\ e = "vector"

\* Mutant of enrich: the new hash is written before the description is
\* requested.
enrich_HashFirst(g, M, text, d, e) ==
    IF gateOpen(g, M, text) THEN setNodeEmbedding(g, M, computeHash(text)) ELSE g

\* The body shared by processSymbol, processFile and describeDirectory for
\* the nodes M and the text hashed: the gate, the description, the
\* embedding, then the one setNodeEmbedding; a null description returns and
\* a throw is caught before anything is written.
enrich(g, M, text, d, e) ==
    IF gateOpen(g, M, text) /\ reachesStore(d, e)
    THEN setNodeEmbedding(g, M, computeHash(text))
    ELSE g

\* The symbols (by index) for which describeFile requests a description.
describeRequests(g, c, f) ==
    {k \in DOMAIN Symbols(c, f) :
        gateOpen(g, SymbolMatch(g, Symbols(c, f)[k], f), Symbols(c, f)[k].text)}

\* describeFile: for the requested symbols in ok (description and embedding
\* both generated) setNodeEmbedding writes the new hash on the matched nodes.
describeFile(g, c, f, ok) ==
    [g EXCEPT !.hash = [m \in g.nodes |->
        IF \E k \in ok : m \in SymbolMatch(g, Symbols(c, f)[k], f)
        THEN computeHash(Symbols(c, f)[CHOOSE k \in ok :
                                         m \in SymbolMatch(g, Symbols(c, f)[k], f)].text)
        ELSE g.hash[m]]]

\* indexFile lines 139-147: the Repository node and its CONTAINS edge to the
\* File node (matched in the graph as it is at that point).
mergeRepository(g, f) ==
    LET g1 == mergeNode(g, RepositoryNode(repoOf(f)))
    IN  mergeRelationship(g1, MatchPath(g1, "Repository", repoOf(f)),
                          MatchPath(g1, "File", f), "CONTAINS", 0)

\* indexFile lines 158-181: the directory chain, from directory k on.
RECURSIVE mergeDirs(_, _, _)
mergeDirs(g, chain, k) ==
    IF k > Len(chain) THEN g
    ELSE LET g1 == mergeNode(g, DirectoryNode(chain[k]))
             parent == IF k = 1 THEN MatchPath(g1, "Repository", RepoPath)
                       ELSE MatchPath(g1, "Directory", chain[k - 1])
         IN  mergeDirs(mergeRelationship(g1, parent, MatchPath(g1, "Directory", chain[k]),
                                         "CONTAINS_DIR", 0),
                       chain, k + 1)

\* indexFile lines 183-203: the File node and its CONTAINS_FILE edge.
mergeFile(g, f) ==
    LET g1 == mergeNode(g, FileNode(f))
        chain == DirChain(f)
        holder == IF Len(chain) > 0 THEN MatchPath(g1, "Directory", chain[Len(chain)])
                  ELSE MatchPath(g1, "Repository", repoOf(f))
    IN  mergeRelationship(g1, holder, MatchPath(g1, "File", f), "CONTAINS_FILE", 0)

\* indexFile lines 230-242: the Parameter nodes of one function.
RECURSIVE mergeParameters(_, _, _, _)
mergeParameters(g, fn, f, k) ==
    IF k > Len(fn.args) THEN g
    ELSE LET g1 == mergeNode(g, ParameterNode(fn.args[k], fn.name, f))
         IN  mergeParameters(
                 mergeRelationship(g1,
                     {n \in MatchNamePath(g1, "Function", fn.name, f) : n.line = fn.lineNumber},
                     {n \in MatchNamePath(g1, "Parameter", fn.args[k], f) : n.fn = fn.name},
                     "HAS_PARAMETER", 0),
                 fn, f, k + 1)

\* indexFile lines 205-243: Function nodes, CONTAINS edges, parameters.
RECURSIVE mergeFunctions(_, _, _, _)
mergeFunctions(g, fns, f, k) ==
    IF k > Len(fns) THEN g
    ELSE LET g1 == mergeNode(g, FunctionNode(fns[k].name, f, fns[k].lineNumber))
             g2 == mergeRelationship(g1, MatchPath(g1, "File", f),
                       {n \in MatchNamePath(g1, "Function", fns[k].name, f) :
                            n.line = fns[k].lineNumber},
                       "CONTAINS", 0)
         IN  mergeFunctions(mergeParameters(g2, fns[k], f, 1), fns, f, k + 1)

\* indexFile lines 245-289: Class and Variable nodes with CONTAINS edges.
RECURSIVE mergeContained(_, _, _, _, _)
mergeContained(g, label, items, f, k) ==
    IF k > Len(items) THEN g
    ELSE LET g1 == mergeNode(g, Node(label, items[k].name, f, items[k].lineNumber, ""))
         IN  mergeContained(
                 mergeRelationship(g1, MatchPath(g1, "File", f),
                     {n \in MatchNamePath(g1, label, items[k].name, f) :
                          n.line = items[k].lineNumber},
                     "CONTAINS", 0),
                 label, items, f, k + 1)

\* indexFile lines 291-306: Module nodes and IMPORTS edges.
RECURSIVE mergeImports(_, _, _, _)
mergeImports(g, imps, f, k) ==
    IF k > Len(imps) THEN g
    ELSE LET g1 == mergeNode(g, ModuleNode(imps[k].source))
         IN  mergeImports(
                 mergeRelationship(g1, MatchPath(g1, "File", f),
                     MatchName(g1, "Module", imps[k].source), "IMPORTS", 0),
                 imps, f, k + 1)

\* indexFile lines 156-306: everything merged after describeFile.
mergeParsed(g, c, f) ==
    LET pf == parse(c)
        g1 == mergeFile(mergeDirs(g, DirChain(f), 1), f)
        g2 == mergeFunctions(g1, pf.functions, f, 1)
        g3 == mergeContained(g2, "Class", pf.classes, f, 1)
        g4 == mergeContained(g3, "Variable", pf.variables, f, 1)
    IN  mergeImports(g4, pf.imports, f, 1)

\* An ImportsMap maps a name to its locations; a name the map does not hold
\* is mapped to the empty sequence (the code never stores an empty list).
NoLocation == [filePath |-> "", lineNumber |-> 0]
EmptyImportsMap == [n \in Names |-> <<>>]

\* preScanAll: the locations of every name over the readable files, in
\* collection order.
RECURSIVE preScanGroup(_, _, _)
preScanGroup(group, cont, k) ==
    IF k > Len(group) THEN EmptyImportsMap
    ELSE LET rest == preScanGroup(group, cont, k + 1)
             here == preScanFile(cont[group[k]])
         IN  [n \in Names |->
                 [j \in 1..Cardinality({i \in DOMAIN here : here[i].name = n}) |->
                     [filePath |-> group[k],
                      lineNumber |-> here[CHOOSE i \in DOMAIN here : here[i].name = n].lineNumber]]
                 \o rest[n]]

\* Array.find: the first element of seq satisfying the test, as an index (0
\* when there is none).
FirstIndex(seq, Test(_)) ==
    IF \E i \in DOMAIN seq : Test(seq[i])
    THEN CHOOSE i \in DOMAIN seq : Test(seq[i]) /\ \A j \in 1..(i - 1) : ~Test(seq[j])
    ELSE 0

\* importsMap.get(n): the locations listed under n, none when n is not a key.
mapGet(imap, n) == IF n \in DOMAIN imap THEN imap[n] ELSE <<>>

\* resolveSymbol step 1: the locations found through the first import whose
\* name or alias is the requested name: the entry under the requested name,
\* else under the import's name, else under its alias (none when the file
\* has no such import or the entry is missing).
\* resolveSymbol(name, parsed, importsMap), on parsed.imports and parsed.path:
\* the first of the locations found through the import; else, of the entry
\* under the requested name, the first location in another file, else the
\* first location; else undefined (NoLocation).
importLocations(name, imports, imap) ==
    LET ImpTest(i) == i.name = name \/ i.alias = name
        impIdx == FirstIndex(imports, ImpTest)
    IN  IF impIdx = 0 THEN <<>>
        ELSE IF mapGet(imap, name) # <<>> THEN mapGet(imap, name)
        ELSE IF mapGet(imap, imports[impIdx].name) # <<>>
             THEN mapGet(imap, imports[impIdx].name)
        ELSE IF imports[impIdx].alias # "" THEN mapGet(imap, imports[impIdx].alias)
        ELSE <<>>

resolveSymbolOf(name, imports, path, imap) ==
    LET viaImport == importLocations(name, imports, imap)
        globalLocations == mapGet(imap, name)
        External(l) == l.filePath # path
        extIdx == FirstIndex(globalLocations, External)
    IN  IF viaImport # <<>> THEN viaImport[1]
        ELSE IF globalLocations # <<>>
             THEN (IF extIdx # 0 THEN globalLocations[extIdx] ELSE globalLocations[1])
        ELSE NoLocation

\* resolveSymbol(name, parsed, importsMap) for the file f holding text c.
resolveSymbol(name, c, f, imap) == resolveSymbolOf(name, parse(c).imports, f, imap)

\* createInheritanceLinks: one query per declared base of each class, with
\* the parent matched by name in any file but not the child itself, and one
\* query per implemented name, matched by name alone.
RECURSIVE createInheritanceLinks(_, _, _, _)
createInheritanceLinks(g, classes, f, k) ==
    IF k > Len(classes) THEN g
    ELSE LET cls == classes[k]
             child == {n \in MatchNamePath(g, "Class", cls.name, f) : n.line = cls.lineNumber}
             parents == {n \in g.nodes : n.label = "Class"
                            /\ \E b \in DOMAIN cls.bases : n.name = cls.bases[b]
                            /\ (n.path # f \/ n.line # cls.lineNumber)}
             ifaces == {n \in g.nodes : n.label = "Class"
                            /\ \E b \in DOMAIN cls.implements : n.name = cls.implements[b]}
             g1 == mergeRelationship(g, child, parents, "INHERITS", 0)
         IN  createInheritanceLinks(mergeRelationship(g1, child, ifaces, "IMPLEMENTS", 0),
                                    classes, f, k + 1)

\* Mutant of calleeNodes: a call that is neither resolved nor local is
\* matched against every function of that name.
calleeNodes_AnyByName(g, call, c, f, imap) ==
    LET resolved == resolveSymbol(call.name, c, f, imap)
    IN  IF resolved # NoLocation
        THEN MatchNamePath(g, "Function", call.name, resolved.filePath)
        ELSE MatchName(g, "Function", call.name)

\* The callee pattern of createCallLinks for one call: the functions of that
\* name in the resolved file; else the function of that name declared in
\* the calling file, at its line; else no query is run.
calleeNodes(g, call, c, f, imap) ==
    LET resolved == resolveSymbol(call.name, c, f, imap)
        IsLocal(fn) == fn.name = call.name
        localIdx == FirstIndex(parse(c).functions, IsLocal)
    IN  IF resolved # NoLocation
        THEN MatchNamePath(g, "Function", call.name, resolved.filePath)
        ELSE IF localIdx # 0
        THEN {n \in MatchNamePath(g, "Function", call.name, f) :
                  n.line = parse(c).functions[localIdx].lineNumber}
        ELSE {}

\* createCallLinks: one query per recorded call that has a caller.
RECURSIVE createCallLinks(_, _, _, _, _)
createCallLinks(g, c, f, imap, k) ==
    IF k > Len(parse(c).calls) THEN g
    ELSE LET call == parse(c).calls[k]
             callers == MatchNamePath(g, "Function", call.callerName, f)
             g1 == IF call.callerName = "" THEN g
                   ELSE mergeRelationship(g, callers, calleeNodes(g, call, c, f, imap),
                                          "CALLS", call.lineNumber)
         IN  createCallLinks(g1, c, f, imap, k + 1)

Jobs == 1..MaxJobs
NoTx == [active |-> FALSE, g |-> EmptyGraph]
NoJob == [status |-> "none", filesTotal |-> 0, filesProcessed |-> 0, error |-> ""]
NoRun == [done |-> FALSE, clean |-> FALSE, content |-> <<>>, nodes |-> {}, edges |-> {}]
NoRequests == [req |-> {}, stored |-> TRUE]
NoCall == [file |-> "", content |-> "", outcome |-> "none", base |-> EmptyGraph,
           dirty |-> FALSE]

\* Number of read, store and provider failures the environment injects.
MaxFaults == 1

\* Whether a call that can fail succeeds: it can fail while the environment
\* has failures left.
MayFail == IF faults < MaxFaults THEN BOOLEAN ELSE {TRUE}
Fault(ok) == faults' = IF ok THEN faults ELSE faults + 1

\* One step of a run, for the record of the order of its steps.
Step(step, f, ok) == [step |-> step, file |-> f, ok |-> ok]

\* Mutant of nextJobId: the id of the last job is handed out again.
nextJobId_Reused(last) == IF last = 0 THEN 1 ELSE last

\* const jobId = `job_${Date.now()}_${random}`: an id no earlier job has.
nextJobId(last) == last + 1

\* Mutant of loopOver: the loop leaves out the last element.
loopOver_SkipLast(i, seq) == i >= Len(seq)

\* for (const x of seq): the loop ends after the last element.
loopOver(i, seq) == i > Len(seq)

\* Mutant of keepParsed: the file is kept whether or not indexFile returned.
keepParsed_Always(all, f, c, outcome) == Append(all, [path |-> f, content |-> c])

\* const parsed = await this.indexFile(...); if (parsed) allParsedFiles.push(parsed);
\* a throw skips the push.
keepParsed(all, f, c, outcome) ==
    IF outcome = "ok" THEN Append(all, [path |-> f, content |-> c]) ELSE all

\* Mutant of afterLink: a failed batch ends the pass.
afterLink_AbortOnError(i, ok, n) == IF ok THEN i + 1 ELSE n + 1

\* The try/catch inside the link loops: the loop goes on to the next file
\* whether the batch succeeded or not.
afterLink(i, ok, n) == i + 1

\* Mutant of requested: describeFile stops at the first symbol that fails.
requested_StopAtFailure(req, ok) ==
    {k \in req : \A j \in req : j < k => j \in ok}

\* describeFile: the symbols processed out of those the gate lets through,
\* given the set ok of those whose enrichment succeeds.  processSymbol and
\* processFile catch their own errors, so every one of them is processed.
requested(req, ok) == req

\* Mutant of hasStore: runWriteQuery ignores the transaction of the batch and
\* runs every statement in a session of its own.
hasStore_Never(t) == FALSE

\* const tx = this.storage.getStore(); if (tx) ...
hasStore(t) == t.active

\* The graph a query of the current async context reads.
View == IF hasStore(tx) THEN tx.g ELSE graph

\* runWriteQuery: inside a batch the statement changes the transaction's
\* view; outside it is committed at once.
Write(g2) ==
    IF hasStore(tx)
    THEN tx' = [tx EXCEPT !.g = g2] /\ UNCHANGED graph
    ELSE graph' = g2 /\ UNCHANGED tx

\* Mutant of bumpProcessed: the counter is advanced inside the try block.
bumpProcessed_OnSuccess(j, outcome) ==
    IF outcome = "ok" THEN [j EXCEPT !.filesProcessed = @ + 1] ELSE j

\* jobs.update(jobId, {filesProcessed: (current?.filesProcessed ?? 0) + 1})
bumpProcessed(j, outcome) == [j EXCEPT !.filesProcessed = @ + 1]

\* The record of a run that ended, for comparing runs.
RunRecord(g) ==
    [done |-> TRUE, clean |-> runClean, content |-> content,
     nodes |-> g.nodes, edges |-> g.edges]

IndexStart(texts) ==
    /\ content \in [Files -> texts]
    /\ \A f \in Files : content[f] \in ContentsOf(f)
    /\ graph = EmptyGraph
    /\ tx = NoTx
    /\ jobs = [j \in Jobs |-> NoJob]
    /\ job = 0
    /\ pc = "idle"
    /\ files = <<>>
    /\ idx = 0
    /\ importsMap = EmptyImportsMap
    /\ allParsedFiles = <<>>
    /\ parsed = ""
    /\ callBase = EmptyGraph
    /\ lastCall = NoCall
    /\ failCause = [j \in Jobs |-> ""]
    /\ attempts = 0
    /\ descRequests = NoRequests
    /\ reindexSame = FALSE
    /\ indexed = [f \in Files |-> [content |-> "", enriched |-> FALSE]]
    /\ runClean = TRUE
    /\ runs = [j \in Jobs |-> NoRun]
    /\ runLog = <<>>
    /\ faults = 0

IndexInit == IndexStart({"A1", "B1", "Absent"})

\* The pipeline at rest on one tree, for the specifications of the other
\* components.
IndexIdle == IndexStart({"A1", "Absent"})

\* The environment rewrites, creates or removes a file between two runs.
EditFile ==
    /\ pc = "idle"
    /\ job < MaxJobs
    /\ \E f \in Files : \E c \in ContentsOf(f) :
          /\ c # content[f]
          /\ content' = [content EXCEPT ![f] = c]
    /\ UNCHANGED <<graph, tx, jobs, job, pc, files, idx, importsMap, allParsedFiles,
                   parsed, callBase, lastCall, failCause, attempts, descRequests,
                   reindexSame, indexed, runClean, runs, runLog>>
    /\ UNCHANGED <<faults, schedVars, watchVars, resolveVars, repoVars, outcomeVars, limitVars, batchVars>>

\* indexDirectory lines 35-45: the job is created with status running.
indexDirectoryStart ==
    /\ pc = "idle"
    /\ job < MaxJobs
    /\ job' = nextJobId(job)
    /\ jobs' = [jobs EXCEPT ![nextJobId(job)] = [NoJob EXCEPT !.status = "running"]]
    /\ runLog' = <<>>
    /\ pc' = "schema"
    /\ files' = <<>>
    /\ idx' = 0
    /\ importsMap' = EmptyImportsMap
    /\ allParsedFiles' = <<>>
    /\ attempts' = 0
    /\ runClean' = TRUE
    /\ lastCall' = NoCall
    /\ runs' = [k \in Jobs |-> IF k >= job THEN runs[k] ELSE NoRun]
    /\ UNCHANGED <<content, graph, tx, parsed, callBase, failCause, descRequests,
                   reindexSame, indexed>>
    /\ UNCHANGED <<faults, schedVars, watchVars, resolveVars, repoVars, outcomeVars, limitVars, batchVars>>

\* The outer catch of indexDirectory: the job becomes failed.
failJob(cause) ==
    /\ jobs' = [jobs EXCEPT ![job].status = "failed", ![job].error = cause]
    /\ failCause' = [failCause EXCEPT ![job] = cause]
    /\ pc' = "idle"

\* jobs.update(jobId, {status: "completed"}) at the end of a run.
completeJob ==
    /\ jobs' = [jobs EXCEPT ![job].status = "completed"]
    /\ runs' = [runs EXCEPT ![job] = RunRecord(graph)]
    /\ pc' = "idle"

\* indexDirectory line 48: ensureSchema succeeds or throws.
ensureSchema ==
    /\ pc = "schema"
    /\ \E ok \in MayFail :
          /\ Fault(ok)
          /\ IF ok THEN pc' = "collect" /\ UNCHANGED <<jobs, failCause>>
             ELSE failJob("schema")
    /\ UNCHANGED <<content, graph, tx, job, files, idx, importsMap, allParsedFiles,
                   parsed, callBase, lastCall, attempts, descRequests, reindexSame,
                   indexed, runClean, runs, runLog>>
    /\ UNCHANGED <<schedVars, watchVars, resolveVars, repoVars, outcomeVars, limitVars, batchVars>>

\* collectFiles: the files that exist, in glob order.
Existing(f) == content[f] # "Absent"
collectedFiles == SelectSeq(<<FileA, FileB>>, Existing)

\* indexDirectory lines 50-56: enumeration, filesTotal, the empty case.
collectFiles ==
    /\ pc = "collect"
    /\ \E ok \in MayFail :
          IF ~ok
          THEN failJob("collect") /\ Fault(ok) /\ UNCHANGED <<files, runs, idx>>
          ELSE /\ files' = collectedFiles
               /\ Fault(ok)
               /\ UNCHANGED failCause
               /\ IF Len(collectedFiles) = 0
                  THEN /\ jobs' = [jobs EXCEPT ![job].filesTotal = 0,
                                               ![job].status = "completed"]
                       /\ runs' = [runs EXCEPT ![job] = RunRecord(graph)]
                       /\ pc' = "idle"
                       /\ UNCHANGED idx
                  ELSE /\ jobs' = [jobs EXCEPT ![job].filesTotal = Len(collectedFiles)]
                       /\ pc' = "prescan"
                       /\ UNCHANGED <<runs, idx>>
    /\ UNCHANGED <<content, graph, tx, job, importsMap, allParsedFiles, parsed,
                   callBase, lastCall, attempts, descRequests, reindexSame, indexed,
                   runClean, runLog>>
    /\ UNCHANGED <<schedVars, watchVars, resolveVars, repoVars, outcomeVars, limitVars, batchVars>>

\* preScanAll: unreadable files are skipped with a warning; parser.preScan
\* runs on the readable group and its throw is not caught here.
preScanAll ==
    /\ pc = "prescan"
    /\ \E readable \in SUBSET {files[k] : k \in DOMAIN files} :
          LET InGroup(f) == f \in readable
              group == SelectSeq(files, InGroup)
          IN  /\ faults + Len(files) - Len(group) <= MaxFaults
              /\ faults' = faults + Len(files) - Len(group)
              /\ runClean' = (runClean /\ Len(group) = Len(files))
              /\ IF \E k \in DOMAIN group : parseSourceThrows(content[group[k]])
                 THEN failJob("prescan") /\ UNCHANGED <<importsMap, idx, runLog>>
                 ELSE /\ importsMap' = preScanGroup(group, content, 1)
                      /\ runLog' = Append(runLog, Step("preScanAll", "", TRUE))
                      /\ pc' = "write"
                      /\ idx' = 1
                      /\ UNCHANGED <<jobs, failCause>>
    /\ UNCHANGED <<content, graph, tx, job, files, allParsedFiles, parsed, callBase,
                   lastCall, attempts, descRequests, reindexSame, indexed, runs>>
    /\ UNCHANGED <<schedVars, watchVars, resolveVars, repoVars, outcomeVars, limitVars, batchVars>>

\* The end of one pass of the write loop (lines 63-72): the parsed file is
\* kept when indexFile returned it, a throw is logged, the counter advances.
endAttempt(f, outcome, dirty) ==
    /\ jobs' = [jobs EXCEPT ![job] = bumpProcessed(@, outcome)]
    /\ attempts' = attempts + 1
    /\ allParsedFiles' = keepParsed(allParsedFiles, f, parsed, outcome)
    /\ runLog' = Append(runLog, Step("indexFile", f, outcome = "ok"))
    /\ lastCall' = [file |-> f, content |-> parsed, outcome |-> outcome,
                    base |-> callBase, dirty |-> dirty]
    /\ idx' = idx + 1
    /\ pc' = "write"
    /\ parsed' = ""
    /\ callBase' = EmptyGraph
    /\ descRequests' = NoRequests
    /\ reindexSame' = FALSE

\* indexFile lines 126-135: read, parse, open the batch.  A throw of
\* readFile or parse leaves indexFile before any statement is issued.
indexFileBegin ==
    /\ pc = "write"
    /\ ~loopOver(idx, files)
    /\ LET f == files[idx] IN
       \E readOk \in MayFail :
          /\ Fault(readOk)
          /\ IF ~readOk \/ parseThrows(content[f])
             THEN /\ jobs' = [jobs EXCEPT ![job] = bumpProcessed(@, "threw")]
                  /\ attempts' = attempts + 1
                  /\ lastCall' = [file |-> f, content |-> content[f], outcome |-> "threw",
                                  base |-> graph, dirty |-> FALSE]
                  /\ idx' = idx + 1
                  /\ runClean' = (runClean /\ readOk)
                  /\ allParsedFiles' = keepParsed(allParsedFiles, f, content[f], "threw")
                  /\ runLog' = Append(runLog, Step("indexFile", f, FALSE))
                  /\ UNCHANGED <<tx, parsed, callBase, descRequests, reindexSame, pc>>
             ELSE /\ tx' = [active |-> TRUE, g |-> graph]
                  /\ parsed' = content[f]
                  /\ callBase' = graph
                  /\ descRequests' = NoRequests
                  /\ reindexSame' = (indexed[f].content = content[f] /\ indexed[f].enriched)
                  /\ pc' = "delete"
                  /\ UNCHANGED <<jobs, attempts, lastCall, idx, runClean,
                                 allParsedFiles, runLog>>
    /\ UNCHANGED <<content, graph, job, files, importsMap, failCause, indexed, runs>>
    /\ UNCHANGED <<schedVars, watchVars, resolveVars, repoVars, outcomeVars, limitVars, batchVars>>

\* indexFile line 137, inside the batch.
txDeleteFileNodes ==
    /\ pc = "delete"
    /\ Write(deleteFileNodes(View, files[idx]))
    /\ pc' = "repo"
    /\ UNCHANGED <<content, jobs, job, files, idx, importsMap, allParsedFiles, parsed,
                   callBase, lastCall, failCause, attempts, descRequests, reindexSame,
                   indexed, runClean, runs, runLog>>
    /\ UNCHANGED <<faults, schedVars, watchVars, resolveVars, repoVars, outcomeVars, limitVars, batchVars>>

\* indexFile lines 139-147, inside the batch.
txMergeRepository ==
    /\ pc = "repo"
    /\ Write(mergeRepository(View, files[idx]))
    /\ pc' = "describe"
    /\ UNCHANGED <<content, jobs, job, files, idx, importsMap, allParsedFiles, parsed,
                   callBase, lastCall, failCause, attempts, descRequests, reindexSame,
                   indexed, runClean, runs, runLog>>
    /\ UNCHANGED <<faults, schedVars, watchVars, resolveVars, repoVars, outcomeVars, limitVars, batchVars>>

\* indexFile lines 149-154, inside the batch: describeFile; for each symbol
\* the gate lets through, the provider and the embedder succeed or not.
txDescribeFile ==
    /\ pc = "describe"
    /\ LET f == files[idx]
           req == describeRequests(View, parsed, f)
       IN  \E ok \in IF faults < MaxFaults THEN SUBSET req ELSE {req} :
              /\ Write(describeFile(View, parsed, f, ok))
              /\ descRequests' = [req |-> requested(req, ok), stored |-> ok = req]
              /\ runLog' = IF req = {} THEN runLog
                           ELSE Append(runLog, Step("describeFile", f, ok = req))
              /\ runClean' = (runClean /\ ok = req)
              /\ Fault(ok = req)
    /\ pc' = "merge"
    /\ UNCHANGED <<content, jobs, job, files, idx, importsMap, allParsedFiles, parsed,
                   callBase, lastCall, failCause, attempts, reindexSame, indexed, runs>>
    /\ UNCHANGED <<schedVars, watchVars, resolveVars, repoVars, outcomeVars, limitVars, batchVars>>

\* indexFile lines 156-306, inside the batch.
txMergeParsed ==
    /\ pc = "merge"
    /\ Write(mergeParsed(View, parsed, files[idx]))
    /\ pc' = "commit"
    /\ UNCHANGED <<content, jobs, job, files, idx, importsMap, allParsedFiles, parsed,
                   callBase, lastCall, failCause, attempts, descRequests, reindexSame,
                   indexed, runClean, runs, runLog>>
    /\ UNCHANGED <<faults, schedVars, watchVars, resolveVars, repoVars, outcomeVars, limitVars, batchVars>>

\* executeBatch: the callback returned, executeWrite commits; indexFile
\* returns parsed.
txCommit ==
    /\ pc = "commit"
    /\ graph' = IF tx.g = callBase THEN graph ELSE tx.g
    /\ tx' = NoTx
    /\ indexed' = [indexed EXCEPT ![files[idx]] =
                      [content |-> parsed,
                       enriched |-> descRequests.stored]]
    /\ endAttempt(files[idx], "ok", FALSE)
    /\ UNCHANGED <<content, job, files, importsMap, failCause, runClean, runs>>
    /\ UNCHANGED <<faults, schedVars, watchVars, resolveVars, repoVars, outcomeVars, limitVars, batchVars>>

\* A statement of the batch (or the commit) fails: executeWrite rolls the
\* transaction back and indexFile throws.
txFail ==
    /\ pc \in {"delete", "repo", "describe", "merge", "commit"}
    /\ faults < MaxFaults
    /\ Fault(FALSE)
    /\ tx' = NoTx
    /\ runClean' = FALSE
    /\ endAttempt(files[idx], "threw", tx.g # callBase \/ graph # callBase)
    /\ UNCHANGED <<content, graph, job, files, importsMap, failCause, indexed, runs>>
    /\ UNCHANGED <<schedVars, watchVars, resolveVars, repoVars, outcomeVars, limitVars, batchVars>>

\* The write loop is over.
writeDone ==
    /\ pc = "write"
    /\ loopOver(idx, files)
    /\ pc' = "linkInh"
    /\ idx' = 1
    /\ lastCall' = NoCall
    /\ UNCHANGED <<content, graph, tx, jobs, job, files, importsMap, allParsedFiles,
                   parsed, callBase, failCause, attempts, descRequests, reindexSame,
                   indexed, runClean, runs, runLog>>
    /\ UNCHANGED <<faults, schedVars, watchVars, resolveVars, repoVars, outcomeVars, limitVars, batchVars>>

\* indexDirectory lines 74-83: one batch per parsed file; a failed batch is
\* rolled back and logged.
linkInheritance ==
    /\ pc = "linkInh"
    /\ IF idx > Len(allParsedFiles)
       THEN /\ pc' = "linkCalls"
            /\ idx' = 1
            /\ UNCHANGED <<graph, runClean, faults, runLog>>
       ELSE \E ok \in MayFail :
              /\ graph' = IF ok
                          THEN createInheritanceLinks(graph,
                                   parse(allParsedFiles[idx].content).classes,
                                   allParsedFiles[idx].path, 1)
                          ELSE graph
              /\ runClean' = (runClean /\ ok)
              /\ Fault(ok)
              /\ runLog' = Append(runLog,
                               Step("createInheritanceLinks", allParsedFiles[idx].path, ok))
              /\ idx' = afterLink(idx, ok, Len(allParsedFiles))
              /\ UNCHANGED pc
    /\ UNCHANGED <<content, tx, jobs, job, files, importsMap, allParsedFiles, parsed,
                   callBase, lastCall, failCause, attempts, descRequests, reindexSame,
                   indexed, runs>>
    /\ UNCHANGED <<schedVars, watchVars, resolveVars, repoVars, outcomeVars, limitVars, batchVars>>

\* indexDirectory lines 85-94: one batch per parsed file.
linkCalls ==
    /\ pc = "linkCalls"
    /\ IF idx > Len(allParsedFiles)
       THEN /\ pc' = "descDirs"
            /\ idx' = 1
            /\ UNCHANGED <<graph, runClean, faults, runLog>>
       ELSE \E ok \in MayFail :
              /\ graph' = IF ok
                          THEN createCallLinks(graph, allParsedFiles[idx].content,
                                   allParsedFiles[idx].path, importsMap, 1)
                          ELSE graph
              /\ runClean' = (runClean /\ ok)
              /\ Fault(ok)
              /\ runLog' = Append(runLog,
                               Step("createCallLinks", allParsedFiles[idx].path, ok))
              /\ idx' = afterLink(idx, ok, Len(allParsedFiles))
              /\ UNCHANGED pc
    /\ UNCHANGED <<content, tx, jobs, job, files, importsMap, allParsedFiles, parsed,
                   callBase, lastCall, failCause, attempts, descRequests, reindexSame,
                   indexed, runs>>
    /\ UNCHANGED <<schedVars, watchVars, resolveVars, repoVars, outcomeVars, limitVars, batchVars>>

\* const dirs = new Set(files.map(dirname)), in insertion order.
dirsOf(fs) ==
    LET First(k) == \A j \in 1..(k - 1) : dirname(fs[j]) # dirname(fs[k])
    IN  [k \in 1..Cardinality({dirname(fs[j]) : j \in DOMAIN fs}) |->
            dirname(fs[CHOOSE i \in DOMAIN fs :
                First(i) /\ Cardinality({j \in 1..i : First(j)}) = k])]

\* files.map(basename).join(", ") for the files of one directory.
fileList(dir) == IF dir = "/r" THEN "a.ts" ELSE IF dir = "/s" THEN "c.ts" ELSE "b.ts"

\* describeDirectory, outside any batch: gate, description, embedding,
\* setNodeEmbedding on the Directory node.
describeDirectory ==
    /\ pc = "descDirs"
    /\ IF idx > Len(dirsOf(files))
       THEN /\ completeJob
            /\ UNCHANGED <<graph, idx, runClean, failCause, faults, runLog>>
       ELSE LET dir == dirsOf(files)[idx]
                M == MatchPath(graph, "Directory", dir)
            IN  /\ IF gateOpen(graph, M, fileList(dir))
                   THEN \E ok \in MayFail, d \in DescriberResults, e \in EmbedderResults :
                          /\ ok = reachesStore(d, e)
                          /\ graph' = enrich(graph, M, fileList(dir), d, e)
                          /\ runClean' = (runClean /\ ok)
                          /\ Fault(ok)
                          /\ runLog' = Append(runLog, Step("describeDirectory", dir, ok))
                   ELSE UNCHANGED <<graph, runClean, faults, runLog>>
                /\ idx' = idx + 1
                /\ UNCHANGED <<pc, jobs, runs, failCause>>
    /\ UNCHANGED <<content, tx, job, files, importsMap, allParsedFiles, parsed,
                   callBase, lastCall, attempts, descRequests, reindexSame, indexed>>
    /\ UNCHANGED <<schedVars, watchVars, resolveVars, repoVars, outcomeVars, limitVars, batchVars>>

IndexNext ==
    \/ EditFile
    \/ indexDirectoryStart
    \/ ensureSchema
    \/ collectFiles
    \/ preScanAll
    \/ indexFileBegin
    \/ txDeleteFileNodes
    \/ txMergeRepository
    \/ txDescribeFile
    \/ txMergeParsed
    \/ txCommit
    \/ txFail
    \/ writeDone
    \/ linkInheritance
    \/ linkCalls
    \/ describeDirectory

(***************************************************************************)
(* File watcher: WatchFilesService                                         *)
(***************************************************************************)

SUPPORTED_EXTENSIONS == {".js", ".jsx", ".mjs", ".cjs", ".ts", ".tsx", ".php"}
DEBOUNCE_MS == 2000

\* The clock advances in steps of half a quiet window, MaxTicks times.
TickMs == DEBOUNCE_MS \div 2
MaxTicks == 4
MaxTime == MaxTicks * TickMs

\* Number of events in one series of events less than DEBOUNCE_MS apart.
MaxEvents == 2

NotesFile == "/r/notes.md"
WatchRoots == {RepoPath}
WatchPaths == Files \cup {NotesFile}
EventKinds == {"add", "change", "unlink"}

\* extname(filePath).toLowerCase()
extname(p) == IF p = NotesFile THEN ".md" ELSE ".ts"

NoTimer == [path |-> "", due |-> -1, kind |-> "none"]
NoSeries == [events |-> 0, startedAt |-> -1, pure |-> TRUE, invocations |-> 0,
             removals |-> 0, invokedAt |-> -1, last |-> "none"]

\* Mutant of clearTimeout: the pending timer is left to fire.
clearTimeout_Noop(T, t) == T

\* clearTimeout(existing)
clearTimeout(T, t) == T \ {t}

\* The series of events less than DEBOUNCE_MS apart that an event at the
\* current time belongs to: it continues the path's series or opens one.
seriesAfterEvent(p, kind) ==
    IF lastEvent[p] >= 0 /\ now - lastEvent[p] < DEBOUNCE_MS
    THEN [series[p] EXCEPT !.events = @ + 1, !.pure = @ /\ kind # "unlink",
                           !.last = kind]
    ELSE [NoSeries EXCEPT !.events = 1, !.startedAt = now, !.pure = kind # "unlink",
                          !.last = kind]

\* Mutant of actionOf: the unlink handler calls indexFile as well.
actionOf_AlwaysIndex(kind) == "index"

\* What the timer callback of an event calls: watcher.on("unlink") leads to
\* handleUnlink and removeFile, add and change to handleChange and indexFile.
actionOf(kind) == IF kind = "unlink" THEN "remove" ELSE "index"

\* handleChange (kind add or change) and handleUnlink: the extension filter,
\* the pending timer of the path cleared, a new timer set.
handleEvent(p, kind) ==
    IF extname(p) \notin SUPPORTED_EXTENSIONS
    THEN UNCHANGED <<debounceTimers, liveTimers, lastEvent, series>>
    ELSE LET existing == debounceTimers[p]
             timer == [path |-> p, due |-> now + DEBOUNCE_MS,
                       kind |-> actionOf(kind)]
             kept == IF existing # NoTimer THEN clearTimeout(liveTimers, existing)
                     ELSE liveTimers
         IN  /\ liveTimers' = kept \cup {timer}
             /\ debounceTimers' = [debounceTimers EXCEPT ![p] = timer]
             /\ lastEvent' = [lastEvent EXCEPT ![p] = now]
             /\ series' = [series EXCEPT ![p] = seriesAfterEvent(p, kind)]

\* The timer callback up to its await: the key is deleted, indexFile or
\* removeFile is called.
timerCallback(t) ==
    /\ debounceTimers' = [debounceTimers EXCEPT ![t.path] = NoTimer]
    /\ liveTimers' = liveTimers \ {t}
    /\ inflight' = [inflight EXCEPT ![t.path][t.kind] = @ + 1]
    /\ series' = [series EXCEPT ![t.path] =
                     IF t.kind = "index"
                     THEN [@ EXCEPT !.invocations = @ + 1, !.invokedAt = now]
                     ELSE [@ EXCEPT !.removals = @ + 1]]

WatchInit ==
    /\ now = 0
    /\ watchers = {}
    /\ importsMapCache = {}
    /\ debounceTimers = [p \in WatchPaths |-> NoTimer]
    /\ liveTimers = {}
    /\ inflight = [p \in WatchPaths |-> [index |-> 0, remove |-> 0]]
    /\ lastEvent = [p \in WatchPaths |-> -1]
    /\ series = [p \in WatchPaths |-> NoSeries]
    /\ subscriptions = [r \in WatchRoots |-> 0]

\* The watcher at rest, for the specifications of the other components.
WatchIdle == WatchInit

\* The part of the watcher state that watch and unwatch touch, as one record.
WatchState ==
    [watchers |-> watchers, importsMapCache |-> importsMapCache,
     subscriptions |-> subscriptions]

\* Writes such a record back to the variables.
SetWatch(s) ==
    /\ watchers' = s.watchers
    /\ importsMapCache' = s.importsMapCache
    /\ subscriptions' = s.subscriptions

\* Mutant of watchOn: the test this.watchers.has(absPath) is missing.
watchOn_NoGuard(s, r) ==
    [watchers |-> s.watchers \cup {r},
     importsMapCache |-> s.importsMapCache \cup {r},
     subscriptions |-> [s.subscriptions EXCEPT ![r] = @ + 1]]

\* watch(dirPath) on the state s: returns at once when the root is watched;
\* otherwise caches an empty import map, subscribes and records the watcher.
watchOn(s, r) ==
    IF r \in s.watchers THEN s
    ELSE [watchers |-> s.watchers \cup {r},
          importsMapCache |-> s.importsMapCache \cup {r},
          subscriptions |-> [s.subscriptions EXCEPT ![r] = @ + 1]]

\* unwatch(dirPath) on the state s: closes and forgets the watcher when
\* there is one.
unwatchOn(s, r) ==
    IF r \in s.watchers
    THEN [watchers |-> s.watchers \ {r},
          importsMapCache |-> s.importsMapCache \ {r},
          subscriptions |-> [s.subscriptions EXCEPT ![r] = @ - 1]]
    ELSE s

\* watch(dirPath)
watch ==
    /\ \E r \in WatchRoots : SetWatch(watchOn(WatchState, r))
    /\ UNCHANGED <<now, debounceTimers, liveTimers, inflight, lastEvent, series>>
    /\ UNCHANGED <<schedVars, indexVars, resolveVars, repoVars, outcomeVars, limitVars, batchVars>>

\* unwatch(dirPath)
unwatch ==
    /\ \E r \in WatchRoots : SetWatch(unwatchOn(WatchState, r))
    /\ UNCHANGED <<now, debounceTimers, liveTimers, inflight, lastEvent, series>>
    /\ UNCHANGED <<schedVars, indexVars, resolveVars, repoVars, outcomeVars, limitVars, batchVars>>

\* closeAll()
closeAll ==
    /\ subscriptions' = [r \in WatchRoots |->
                            IF r \in watchers THEN subscriptions[r] - 1
                            ELSE subscriptions[r]]
    /\ watchers' = {}
    /\ importsMapCache' = {}
    /\ UNCHANGED <<now, debounceTimers, liveTimers, inflight, lastEvent, series>>
    /\ UNCHANGED <<schedVars, indexVars, resolveVars, repoVars, outcomeVars, limitVars, batchVars>>

\* chokidar emits add, change or unlink for a path under a watched root.
FileEvent ==
    /\ RepoPath \in watchers
    /\ \E p \in WatchPaths, kind \in EventKinds :
          /\ seriesAfterEvent(p, kind).events <= MaxEvents
          /\ handleEvent(p, kind)
    /\ UNCHANGED <<now, watchers, importsMapCache, inflight, subscriptions>>
    /\ UNCHANGED <<schedVars, indexVars, resolveVars, repoVars, outcomeVars, limitVars, batchVars>>

\* A timer that is due fires (never early, possibly late).
DebounceFires ==
    /\ \E t \in liveTimers : now >= t.due /\ timerCallback(t)
    /\ UNCHANGED <<now, watchers, importsMapCache, lastEvent, subscriptions>>
    /\ UNCHANGED <<schedVars, indexVars, resolveVars, repoVars, outcomeVars, limitVars, batchVars>>

\* Mutant of callbackEnd: the callback has no catch block.
callbackEnd_NoCatch(ok) == IF ok THEN "returned" ELSE "rejected"

\* How the async timer callback ends when the awaited indexFile or
\* removeFile returns (ok) or throws: the catch block logs the error and the
\* callback returns.
callbackEnd(ok) == IF ok THEN "returned" ELSE "caught"

\* The rest of the timer callback of path p after its await.  A callback
\* that returns leaves the watcher as it is; the promise of a callback that
\* rejects is awaited by nobody, and the unhandled rejection ends the process
\* with its subscriptions and timers.
actionEnds(p, k, ok) ==
    /\ inflight[p][k] > 0
    /\ inflight' = [inflight EXCEPT ![p][k] = @ - 1]
    /\ IF callbackEnd(ok) = "rejected"
       THEN /\ watchers' = {}
            /\ importsMapCache' = {}
            /\ debounceTimers' = [q \in WatchPaths |-> NoTimer]
            /\ liveTimers' = {}
            /\ subscriptions' = [r \in WatchRoots |-> 0]
       ELSE UNCHANGED <<watchers, importsMapCache, debounceTimers, liveTimers,
                        subscriptions>>
    /\ UNCHANGED <<now, lastEvent, series>>

\* The awaited indexFile or removeFile returns or throws; the throw is
\* caught and logged.
ActionEnds ==
    /\ \E p \in WatchPaths, k \in {"index", "remove"}, ok \in BOOLEAN :
          actionEnds(p, k, ok)
    /\ UNCHANGED <<schedVars, indexVars, resolveVars, repoVars, outcomeVars, limitVars, batchVars>>

\* The same step, with the action that ended and its outcome recorded.
ActionEndsRecorded ==
    /\ \E p \in WatchPaths, k \in {"index", "remove"}, ok \in BOOLEAN :
          /\ actionEnds(p, k, ok)
          /\ lastAction' = [path |-> p, ok |-> ok]
    /\ UNCHANGED lastEnd
    /\ UNCHANGED <<schedVars, indexVars, resolveVars, repoVars, limitVars, batchVars>>

\* Time passes.
Tick ==
    /\ now < MaxTime
    /\ now' = now + TickMs
    /\ UNCHANGED <<watchers, importsMapCache, debounceTimers, liveTimers, inflight,
                   lastEvent, series, subscriptions>>
    /\ UNCHANGED <<schedVars, indexVars, resolveVars, repoVars, outcomeVars, limitVars, batchVars>>

WatchNext ==
    \/ watch
    \/ unwatch
    \/ closeAll
    \/ FileEvent
    \/ DebounceFires
    \/ ActionEnds
    \/ Tick

WatchOutcomeNext ==
    \/ watch
    \/ unwatch
    \/ closeAll
    \/ FileEvent
    \/ DebounceFires
    \/ ActionEndsRecorded
    \/ Tick

(***************************************************************************)
(* Specifications                                                          *)
(***************************************************************************)

(***************************************************************************)
(* The symbol resolver as a function of its arguments                      *)
(***************************************************************************)

\* The longest import list and the longest location list of a call.
MaxImports == 2
MaxLocations == 2

\* The names a call asks for and an entry of the map is listed under, the
\* local names an import binds, and the original names of aliased imports.
RequestedNames == {"foo", "baz"}
LocalNames == {"foo", "baz", "bar"}
OriginalNames == {"", "foo", "baz"}

\* ParsedImport records as the parser builds them: name is the local name
\* the import binds, alias the imported symbol's original name when the
\* import renames it ("" when it does not).
ImportRecords ==
    {i \in [name : LocalNames, source : {"./m"}, alias : OriginalNames] :
        i.alias # i.name}

\* The local name an import binds.
Binding(i) == i.name

\* parsed.imports: the import lists of a module, which binds no local name
\* twice.
ImportLists ==
    {l \in UNION {[1..k -> ImportRecords] : k \in 0..MaxImports} :
        \A a, b \in DOMAIN l : a # b => Binding(l[a]) # Binding(l[b])}

\* The locations the pre-scan can list, and the entries of an ImportsMap
\* (<<>> for a name that is not a key).
Locations == {[filePath |-> f, lineNumber |-> 1] : f \in Files}
LocationLists == UNION {[1..k -> Locations] : k \in 0..MaxLocations}

NoResult == [done |-> FALSE, location |-> NoLocation]

ResolveInit ==
    /\ resolveCall \in [name : RequestedNames, imports : ImportLists, path : Files,
                        importsMap : [RequestedNames -> LocationLists]]
    /\ resolveResult = NoResult

\* No call of the resolver, for the specifications of the other components.
ResolveIdle ==
    /\ resolveCall = [name |-> "foo", imports |-> <<>>, path |-> FileA,
                      importsMap |-> [n \in RequestedNames |-> <<>>]]
    /\ resolveResult = NoResult

\* One call resolveSymbol(name, parsed, importsMap) returns.
resolveSymbolCall ==
    /\ ~resolveResult.done
    /\ resolveResult' =
          [done |-> TRUE,
           location |-> resolveSymbolOf(resolveCall.name, resolveCall.imports,
                                        resolveCall.path, resolveCall.importsMap)]
    /\ UNCHANGED resolveCall
    /\ UNCHANGED <<schedVars, indexVars, watchVars, repoVars, outcomeVars, limitVars, batchVars>>

ResolveNext == resolveSymbolCall

(***************************************************************************)
(* Repository operations on an indexed graph                               *)
(***************************************************************************)

\* The graph once the store has executed a statement: every content_hash
\* property holds its value (@@ yields the function tabulated).
committed(g) == [nodes |-> g.nodes, edges |-> g.edges, hash |-> g.hash @@ <<>>]

\* TRUE of every graph.  A statement or a pass starts from the graph the one
\* before it has left in the store; as the test of a conditional this makes
\* TLC compute that graph before it enters the next one.
settled(g) == g.nodes \subseteq g.nodes

\* indexFile on a readable, parseable file with no failure: the statements
\* of its batch in order.
indexFile(g, f, c) ==
    LET g1 == committed(deleteFileNodes(g, f))
        g2 == committed(mergeRepository(g1, f))
        g3 == committed(describeFile(g2, c, f, describeRequests(g2, c, f)))
    IN  IF settled(g1) /\ settled(g2) /\ settled(g3)
        THEN committed(mergeParsed(g3, c, f))
        ELSE g

\* The write loop of indexDirectory over the collected files.
RECURSIVE writeLoop(_, _, _, _)
writeLoop(g, fs, cont, k) ==
    IF k > Len(fs) THEN g
    ELSE LET g1 == indexFile(g, fs[k], cont[fs[k]])
         IN  IF settled(g1) THEN writeLoop(g1, fs, cont, k + 1) ELSE g1

\* The inheritance pass over the parsed files.
RECURSIVE inheritanceLoop(_, _, _, _)
inheritanceLoop(g, fs, cont, k) ==
    IF k > Len(fs) THEN g
    ELSE LET g1 == createInheritanceLinks(g, parse(cont[fs[k]]).classes, fs[k], 1)
         IN  IF settled(g1) THEN inheritanceLoop(g1, fs, cont, k + 1) ELSE g1

\* The call pass over the parsed files.
RECURSIVE callLoop(_, _, _, _, _)
callLoop(g, fs, cont, imap, k) ==
    IF k > Len(fs) THEN g
    ELSE LET g1 == createCallLinks(g, cont[fs[k]], fs[k], imap, 1)
         IN  IF settled(g1) THEN callLoop(g1, fs, cont, imap, k + 1) ELSE g1

\* The directory descriptions behind the content-hash gate.
RECURSIVE directoryLoop(_, _, _)
directoryLoop(g, fs, k) ==
    IF k > Len(dirsOf(fs)) THEN g
    ELSE LET dir == dirsOf(fs)[k]
             M == MatchPath(g, "Directory", dir)
             g1 == IF gateOpen(g, M, fileList(dir))
                   THEN committed(setNodeEmbedding(g, M, computeHash(fileList(dir))))
                   ELSE g
         IN  IF settled(g1) THEN directoryLoop(g1, fs, k + 1) ELSE g1

\* indexDirectory with no failure on a tree of parseable files: collect,
\* pre-scan, write every file, link inheritance, link calls, describe the
\* directories.
indexRoot(g, under, cont) ==
    LET Here(f) == cont[f] # "Absent"
        fs == SelectSeq(under, Here)
        imap == preScanGroup(fs, cont, 1)
        g1 == writeLoop(g, fs, cont, 1)
        g2 == inheritanceLoop(g1, fs, cont, 1)
        g3 == callLoop(g2, fs, cont, imap, 1)
    IN  IF Len(fs) = 0 THEN g
        ELSE IF settled(g1) /\ settled(g2) /\ settled(g3) THEN directoryLoop(g3, fs, 1)
        ELSE g

\* indexDirectory on the repository of files a.ts and d/b.ts.
indexDirectory(g, cont) == indexRoot(g, <<FileA, FileB>>, cont)

\* removeFile(filePath)
removeFile(g, f) == deleteFileNodes(g, f)

\* The nodes a variable-length pattern (S)-[*]->(n) binds to n, together
\* with S.
RECURSIVE reachable(_, _)
reachable(g, S) ==
    LET next == S \cup {e.to : e \in {x \in g.edges : x.from \in S}}
    IN  IF next = S THEN S ELSE reachable(g, next)

\* deleteRepository: MATCH (r:Repository {path})-[*]->(n) DETACH DELETE n, r.
\* The statement deletes over the rows of the match: a Repository node
\* without an outgoing relationship yields no row.
deleteRepository(g, path) ==
    LET R == {r \in MatchPath(g, "Repository", path) : \E e \in g.edges : e.from = r}
        N == reachable(g, {e.to : e \in {x \in g.edges : x.from \in R}})
    IN  detachDelete(g, R \cup N)

\* listRepositories: MATCH (r:Repository) RETURN r.path.
listRepositories(g) == {r.path : r \in MatchLabel(g, "Repository")}

\* The texts of the files the repository operations run on.
TreeTexts(f) == IF f = FileA THEN {"A1", "A2", "Absent"} ELSE {"B1", "Absent"}

Op(op, f) == [op |-> op, file |-> f]
NotListed == [done |-> FALSE, paths |-> {}]

RepoInit ==
    /\ store = EmptyGraph
    /\ tree \in [Files -> {"A1", "A2", "B1", "Absent"}]
    /\ \A f \in Files : tree[f] \in TreeTexts(f)
    /\ lastOp = Op("", "")
    /\ listed = NotListed

\* No repository operation, for the specifications of the other components.
RepoIdle ==
    /\ store = EmptyGraph
    /\ tree = [f \in Files |-> "Absent"]
    /\ lastOp = Op("", "")
    /\ listed = NotListed

\* The environment rewrites, creates or removes a file.
TreeEdit ==
    /\ \E f \in Files : \E c \in TreeTexts(f) \ {tree[f]} :
          /\ tree' = [tree EXCEPT ![f] = c]
          /\ lastOp' = Op("edit", f)
    /\ UNCHANGED <<store, listed>>
    /\ UNCHANGED <<schedVars, indexVars, watchVars, resolveVars, outcomeVars, limitVars, batchVars>>

\* add_code_to_graph: a whole indexDirectory run.
addCodeToGraph ==
    /\ store' = indexDirectory(store, tree)
    /\ lastOp' = Op("indexDirectory", "")
    /\ UNCHANGED <<tree, listed>>
    /\ UNCHANGED <<schedVars, indexVars, watchVars, resolveVars, outcomeVars, limitVars, batchVars>>

\* handleChange once the debounce has settled: indexFile on the one file,
\* with the import map cached for the root.
handleChange ==
    /\ \E f \in Files :
          /\ tree[f] # "Absent"
          /\ store' = indexFile(store, f, tree[f])
          /\ lastOp' = Op("indexFile", f)
    /\ UNCHANGED <<tree, listed>>
    /\ UNCHANGED <<schedVars, indexVars, watchVars, resolveVars, outcomeVars, limitVars, batchVars>>

\* handleUnlink once the debounce has settled: removeFile on the one file.
handleUnlink ==
    /\ \E f \in Files :
          /\ tree[f] = "Absent"
          /\ store' = removeFile(store, f)
          /\ lastOp' = Op("removeFile", f)
    /\ UNCHANGED <<tree, listed>>
    /\ UNCHANGED <<schedVars, indexVars, watchVars, resolveVars, outcomeVars, limitVars, batchVars>>

\* delete_repository
deleteRepositoryCall ==
    /\ store' = deleteRepository(store, RepoPath)
    /\ lastOp' = Op("deleteRepository", "")
    /\ UNCHANGED <<tree, listed>>
    /\ UNCHANGED <<schedVars, indexVars, watchVars, resolveVars, outcomeVars, limitVars, batchVars>>

\* list_indexed_repositories
listRepositoriesCall ==
    /\ listed' = [done |-> TRUE, paths |-> listRepositories(store)]
    /\ lastOp' = Op("listRepositories", "")
    /\ UNCHANGED <<store, tree>>
    /\ UNCHANGED <<schedVars, indexVars, watchVars, resolveVars, outcomeVars, limitVars, batchVars>>

\* The one file of the second repository and its text.
OtherTree == [f \in {FileC} |-> "C1"]

\* add_code_to_graph on the second repository.
addOtherRepository ==
    /\ store' = indexRoot(store, <<FileC>>, OtherTree)
    /\ lastOp' = Op("indexDirectory", OtherRepo)
    /\ UNCHANGED <<tree, listed>>
    /\ UNCHANGED <<schedVars, indexVars, watchVars, resolveVars, outcomeVars, limitVars, batchVars>>

\* delete_repository on the second repository.
deleteOtherRepository ==
    /\ store' = deleteRepository(store, OtherRepo)
    /\ lastOp' = Op("deleteRepository", OtherRepo)
    /\ UNCHANGED <<tree, listed>>
    /\ UNCHANGED <<schedVars, indexVars, watchVars, resolveVars, outcomeVars, limitVars, batchVars>>

TwoRepoNext ==
    \/ TreeEdit
    \/ addCodeToGraph
    \/ addOtherRepository
    \/ deleteRepositoryCall
    \/ deleteOtherRepository

RepoNext ==
    \/ TreeEdit
    \/ addCodeToGraph
    \/ handleChange
    \/ handleUnlink
    \/ deleteRepositoryCall
    \/ listRepositoriesCall

(***************************************************************************)
(* limitConcurrency                                                        *)
(***************************************************************************)

\* The largest tasks array and the largest concurrency argument.
MaxLimitTasks == 4
MaxConcurrency == 2

\* The for loop from the point where i tasks have been called: each
\* iteration calls the next task and pushes its promise; it awaits
\* Promise.race when activeTasks.length >= concurrency, and falls through to
\* Promise.all when the tasks are used up.
RECURSIVE forLoop(_, _, _)
forLoop(i, n, c) ==
    IF i >= n THEN [activeTasks |-> i, pc |-> "all"]
    ELSE IF i + 1 >= c THEN [activeTasks |-> i + 1, pc |-> "race"]
    ELSE forLoop(i + 1, n, c)

\* The tasks that were called and have not fulfilled.
Unfinished == (1..activeTasks) \ {results[k] : k \in DOMAIN results}

LimitStart(ns, cs) ==
    /\ tasks \in ns
    /\ concurrency \in cs
    /\ activeTasks = 0
    /\ results = <<>>
    /\ limitPc = "idle"

LimitInit == LimitStart(0..MaxLimitTasks, 1..MaxConcurrency)

\* No limitConcurrency call, for the specifications of the other components.
LimitIdle == LimitStart({0}, {1})

\* limitConcurrency(tasks, concurrency) up to its first await.
limitConcurrency ==
    /\ limitPc = "idle"
    /\ activeTasks' = forLoop(0, tasks, concurrency).activeTasks
    /\ limitPc' = forLoop(0, tasks, concurrency).pc
    /\ UNCHANGED <<tasks, concurrency, results>>
    /\ UNCHANGED <<schedVars, indexVars, watchVars, resolveVars, repoVars, outcomeVars, batchVars>>

\* The promise of a task that was called fulfils: its then callback pushes
\* the result.
taskFulfils ==
    /\ \E t \in Unfinished : results' = Append(results, t)
    /\ UNCHANGED <<tasks, concurrency, activeTasks, limitPc>>
    /\ UNCHANGED <<schedVars, indexVars, watchVars, resolveVars, repoVars, outcomeVars, batchVars>>

\* await Promise.race(activeTasks) resumes: some promise of the array, which
\* holds every promise pushed so far, has settled.  The loop goes on.
raceSettles ==
    /\ limitPc = "race"
    /\ results # <<>>
    /\ activeTasks' = forLoop(activeTasks, tasks, concurrency).activeTasks
    /\ limitPc' = forLoop(activeTasks, tasks, concurrency).pc
    /\ UNCHANGED <<tasks, concurrency, results>>
    /\ UNCHANGED <<schedVars, indexVars, watchVars, resolveVars, repoVars, outcomeVars, batchVars>>

\* await Promise.all(activeTasks) resumes and the results are returned.
allSettle ==
    /\ limitPc = "all"
    /\ Unfinished = {}
    /\ limitPc' = "returned"
    /\ UNCHANGED <<tasks, concurrency, activeTasks, results>>
    /\ UNCHANGED <<schedVars, indexVars, watchVars, resolveVars, repoVars, outcomeVars, batchVars>>

LimitNext ==
    \/ limitConcurrency
    \/ taskFulfils
    \/ raceSettles
    \/ allSettle

(***************************************************************************)
(* Neo4jGraphRepository with the active transaction in the field batchTx   *)
(***************************************************************************)

\* The executeBatch calls that overlap and the queries one callback issues.
Batches == {1, 2}
MaxQueries == 2

\* The transaction a query issued now runs in: runQuery and runWriteQuery
\* read this.batchTx and use it when it is set, a session of their own (0)
\* otherwise.
txOfQuery == batchTx

BatchInit ==
    /\ batchTx = 0
    /\ batchPc = [b \in Batches |-> "idle"]
    /\ issued = [b \in Batches |-> 0]
    /\ queryLog = {}

\* No executeBatch call, for the specifications of the other components.
BatchIdle == BatchInit

\* executeBatch(fn): the session is opened and executeWrite is awaited.
executeBatch ==
    /\ \E b \in Batches :
          /\ batchPc[b] = "idle"
          /\ batchPc' = [batchPc EXCEPT ![b] = "begin"]
    /\ UNCHANGED <<batchTx, issued, queryLog>>
    /\ UNCHANGED <<schedVars, indexVars, watchVars, resolveVars, repoVars, outcomeVars, limitVars>>

\* The transaction function is called with the batch's transaction:
\* this.batchTx = tx, then fn() runs up to its first await, the first query.
txFunction ==
    /\ \E b \in Batches :
          /\ batchPc[b] = "begin"
          /\ batchTx' = b
          /\ batchPc' = [batchPc EXCEPT ![b] = "fn"]
          /\ issued' = [issued EXCEPT ![b] = 1]
          /\ queryLog' = queryLog \cup {[batch |-> b, tx |-> b]}
    /\ UNCHANGED <<schedVars, indexVars, watchVars, resolveVars, repoVars, outcomeVars, limitVars>>

\* The query the callback awaited has returned and the callback issues its
\* next one.
runWriteQuery ==
    /\ \E b \in Batches :
          /\ batchPc[b] = "fn"
          /\ issued[b] < MaxQueries
          /\ issued' = [issued EXCEPT ![b] = @ + 1]
          /\ queryLog' = queryLog \cup {[batch |-> b, tx |-> txOfQuery]}
    /\ UNCHANGED <<batchTx, batchPc>>
    /\ UNCHANGED <<schedVars, indexVars, watchVars, resolveVars, repoVars, outcomeVars, limitVars>>

\* fn() has returned or thrown: finally this.batchTx = null; the
\* transaction is committed or rolled back and the session closed.
txFunctionEnds ==
    /\ \E b \in Batches :
          /\ batchPc[b] = "fn"
          /\ batchTx' = 0
          /\ batchPc' = [batchPc EXCEPT ![b] = "closed"]
    /\ UNCHANGED <<issued, queryLog>>
    /\ UNCHANGED <<schedVars, indexVars, watchVars, resolveVars, repoVars, outcomeVars, limitVars>>

\* The caller's next executeBatch call can start.
executeBatchReturns ==
    /\ \E b \in Batches :
          /\ batchPc[b] = "closed"
          /\ batchPc' = [batchPc EXCEPT ![b] = "idle"]
          /\ issued' = [issued EXCEPT ![b] = 0]
    /\ UNCHANGED <<batchTx, queryLog>>
    /\ UNCHANGED <<schedVars, indexVars, watchVars, resolveVars, repoVars, outcomeVars, limitVars>>

BatchNext ==
    \/ executeBatch
    \/ txFunction
    \/ runWriteQuery
    \/ txFunctionEnds
    \/ executeBatchReturns

vars == <<schedVars, indexVars, watchVars, resolveVars, repoVars, outcomeVars, limitVars, batchVars>>

\* The scheduler alone.
SchedSpecInit == SchedInit /\ IndexIdle /\ WatchIdle /\ ResolveIdle /\ RepoIdle /\ lastEnd = NoEnd /\ lastAction = NoAction /\ LimitIdle /\ BatchIdle
SchedSpec == SchedSpecInit /\ [][SchedNext]_vars

\* Every provider call eventually returns or throws; every backoff timer
\* eventually fires.
SchedLiveSpec ==
    /\ SchedSpec
    /\ \A t \in Tasks : WF_vars(TaskEndsFor(t))
    /\ \A t \in Tasks : WF_vars(TimerFiresFor(t))

\* The indexing pipeline alone.
IndexSpecInit == IndexInit /\ SchedIdle /\ WatchIdle /\ ResolveIdle /\ RepoIdle /\ lastEnd = NoEnd /\ lastAction = NoAction /\ LimitIdle /\ BatchIdle
IndexSpec == IndexSpecInit /\ [][IndexNext]_vars

\* The watcher alone.
WatchSpecInit == WatchInit /\ SchedIdle /\ IndexIdle /\ ResolveIdle /\ RepoIdle /\ lastEnd = NoEnd /\ lastAction = NoAction /\ LimitIdle /\ BatchIdle
WatchSpec == WatchSpecInit /\ [][WatchNext]_vars

\* resolveSymbol alone, on every call within the bounds.
ResolveSpecInit == ResolveInit /\ SchedIdle /\ IndexIdle /\ WatchIdle /\ RepoIdle /\ lastEnd = NoEnd /\ lastAction = NoAction /\ LimitIdle /\ BatchIdle
ResolveSpec == ResolveSpecInit /\ [][ResolveNext]_vars

\* The repository operations alone, each as one step.
RepoSpecInit == RepoInit /\ SchedIdle /\ IndexIdle /\ WatchIdle /\ ResolveIdle /\ lastEnd = NoEnd /\ lastAction = NoAction /\ LimitIdle /\ BatchIdle
RepoSpec == RepoSpecInit /\ [][RepoNext]_vars

\* The watcher with the outcome of every settled action recorded.
WatchOutcomeSpecInit == WatchSpecInit
WatchOutcomeSpec == WatchOutcomeSpecInit /\ [][WatchOutcomeNext]_vars

\* Two repositories in one store: indexing and deleting each.
TwoRepoSpecInit == RepoSpecInit
TwoRepoSpec == TwoRepoSpecInit /\ [][TwoRepoNext]_vars

\* limitConcurrency alone, on every call within the bounds.
LimitSpecInit ==
    LimitInit /\ SchedIdle /\ IndexIdle /\ WatchIdle /\ ResolveIdle /\ RepoIdle /\ BatchIdle
        /\ lastEnd = NoEnd /\ lastAction = NoAction
LimitSpec == LimitSpecInit /\ [][LimitNext]_vars

\* Two overlapping executeBatch calls on one repository object.
BatchSpecInit ==
    BatchInit /\ SchedIdle /\ IndexIdle /\ WatchIdle /\ ResolveIdle /\ RepoIdle /\ LimitIdle
        /\ lastEnd = NoEnd /\ lastAction = NoAction
BatchSpec == BatchSpecInit /\ [][BatchNext]_vars

\* The scheduler with the outcome of every provider call recorded.
SchedOutcomeSpecInit == SchedSpecInit
SchedOutcomeSpec == SchedOutcomeSpecInit /\ [][SchedOutcomeNext]_vars

(***************************************************************************)
(* Scheduler claims                                                        *)
(***************************************************************************)

RunningOn(i) == {t \in Tasks : <<t, i>> \in running}
SlotsOf(t) == {i \in Slots : <<t, i>> \in running}
InQueue(t) == Cardinality({k \in DOMAIN queue : queue[k] = t})
IsResolved(t) == IF resolveCalls[t] > 0 THEN 1 ELSE 0
Places(t) == InQueue(t) + Cardinality(SlotsOf(t)) + timers[t] + IsResolved(t)

\* C1: for every provider, in every reachable state, the number of tasks
\* executing against it (slot.active, and the executeTask calls in flight
\* on it) never exceeds the provider's configured limit.
C1_LimitRespected ==
    \A i \in Slots :
        /\ pool[i].active <= pool[i].limit
        /\ Cardinality(RunningOn(i)) <= pool[i].limit

\* C1 witness: every provider is at its limit while a task waits in the queue.
C1_Witness ==
    /\ \A i \in Slots : pool[i].active = pool[i].limit
    /\ queue # <<>>

\* C2: every task submitted with an API key set is in exactly one place:
\* the pending queue, executing on exactly one provider, waiting in a
\* backoff timer, or resolved; and its caller is resolved at most once.
C2_ExactlyOnePlace ==
    \A t \in Tasks :
        (apiKey /\ submitted[t]) => (Places(t) = 1 /\ resolveCalls[t] <= 1)

\* C2 witness: one task was retried and is resolved, another waits in a
\* backoff timer, a third is pending or executing.
C2_Witness ==
    /\ apiKey
    /\ \E t \in Tasks : retries[t] > 0 /\ resolveCalls[t] = 1
    /\ \E t \in Tasks : timers[t] = 1
    /\ \E t \in Tasks : InQueue(t) = 1 \/ SlotsOf(t) # {}

\* C3: when every provider call returns or throws and every backoff timer
\* fires, every submitted task eventually resolves its caller, after at most
\* maxRetries re-enqueues, i.e. at most maxRetries + 1 executions.
C3_EventuallyResolved ==
    /\ [](\A t \in Tasks : retries[t] <= maxRetries /\ execs[t] <= maxRetries + 1)
    /\ \A t \in Tasks : submitted[t] ~> (resolveCalls[t] > 0)

\* C3 witness: a task resolved after its fourth execution.
C3_Witness ==
    \E t \in Tasks : execs[t] = maxRetries + 1 /\ resolveCalls[t] = 1 /\ result[t] = "text"

(***************************************************************************)
(* Indexing pipeline claims                                                *)
(***************************************************************************)

SymbolLabels == {"Function", "Class", "Variable", "Parameter"}

\* The symbol nodes of file f in graph g.
SymbolNodes(g, f) == {n \in g.nodes : n.path = f /\ n.label \in SymbolLabels}

\* The nodes the write step creates for source text c of file f.
ProducedNodes(c, f) == mergeParsed(EmptyGraph, c, f).nodes

\* C4: after indexFile(F) returned, no Function, Class, Variable or
\* Parameter node that F had before the call remains in the graph unless
\* the new version of F produces a node with the same key.
C4_FullReplace ==
    (pc = "write" /\ lastCall.outcome = "ok") =>
        \A n \in SymbolNodes(lastCall.base, lastCall.file) :
            n \in graph.nodes => n \in ProducedNodes(lastCall.content, lastCall.file)

\* Two consecutive runs, both completed without a read, store or provider
\* failure, over the same tree.
SameTreeRuns(j) ==
    /\ j > 1
    /\ runs[j].done /\ runs[j - 1].done
    /\ runs[j].clean /\ runs[j - 1].clean
    /\ runs[j].content = runs[j - 1].content

\* C5: a second indexDirectory run over an unchanged tree leaves the graph
\* with the node set and the edge set it had after the first run.
C5_Idempotent ==
    \A j \in Jobs :
        SameTreeRuns(j) =>
            /\ runs[j].nodes = runs[j - 1].nodes
            /\ runs[j].edges = runs[j - 1].edges

\* C5 witness: two clean runs over the tree holding both files unchanged,
\* whose graph holds a cross-file CALLS edge.
C5_Witness ==
    \E j \in Jobs :
        /\ SameTreeRuns(j)
        /\ runs[j].content[FileA] = "A1" /\ runs[j].content[FileB] = "B1"
        /\ \E e \in runs[j].edges : e.type = "CALLS" /\ e.from.path # e.to.path

\* C6: re-indexing a file that was indexed and enriched, with unchanged
\* content, makes no description request for the file or its symbols.
C6_NoRegeneration ==
    (pc \in {"merge", "commit"} /\ reindexSame) => descRequests.req = {}

\* C7: while the batch of an indexFile call is open none of its statements
\* is visible in the store, and after a call that threw the graph is what
\* it was when the call began.
C7_AtomicWrite ==
    /\ tx.active => graph = callBase
    /\ (pc = "write" /\ lastCall.outcome = "threw") => graph = lastCall.base

\* C7 witness: a batch that had deleted the old subtree of an indexed file
\* failed, and the call has returned.
C7_Witness ==
    /\ pc = "write"
    /\ lastCall.outcome = "threw"
    /\ lastCall.dirty
    /\ SymbolNodes(lastCall.base, lastCall.file) # {}

\* C9: a job is failed only by an error of schema setup or of file
\* enumeration; an error in reading or parsing one file never fails it.
C9_FailedOnlyOutsideLoop ==
    \A j \in Jobs : jobs[j].status = "failed" => failCause[j] \in {"schema", "collect"}

\* C10: filesProcessed counts the write attempts that ended, one per
\* collected file in order, whatever their outcome; it never exceeds
\* filesTotal, and a completed job has filesProcessed = filesTotal.
C10_ProgressCounter ==
    /\ job > 0 => jobs[job].filesProcessed = attempts
    /\ pc \in {"write", "delete", "repo", "describe", "merge", "commit"} =>
          attempts = idx - 1
    /\ \A j \in Jobs :
          /\ jobs[j].filesProcessed <= jobs[j].filesTotal
          /\ jobs[j].status = "completed" => jobs[j].filesProcessed = jobs[j].filesTotal

\* C10 witness: a job completed with two files counted, one of which threw.
C10_Witness ==
    /\ job > 0
    /\ jobs[job].status = "completed"
    /\ jobs[job].filesProcessed = 2
    /\ Len(allParsedFiles) = 1

(***************************************************************************)
(* Watcher claims                                                          *)
(***************************************************************************)

TimersOf(p) == {t \in liveTimers : t.path = p}

\* C8: for a series of add/change events of one path, each less than
\* DEBOUNCE_MS after the previous one, at most one indexFile invocation is
\* made; until it is made exactly one timer is pending for the path, and it
\* is made no sooner than DEBOUNCE_MS after the last event of the series.
C8_Debounce ==
    \A p \in WatchPaths :
        (series[p].events >= 1 /\ series[p].pure) =>
            /\ series[p].removals = 0
            /\ series[p].invocations + Cardinality(TimersOf(p)) = 1
            /\ series[p].invocations = 1 =>
                  series[p].invokedAt >= lastEvent[p] + DEBOUNCE_MS
            /\ \A t \in TimersOf(p) :
                  t.kind = "index" /\ t.due = lastEvent[p] + DEBOUNCE_MS

\* C8 witness: a series of several events, the last of them later than the
\* first, has led to its one invocation.
C8_Witness ==
    \E p \in WatchPaths :
        /\ series[p].events >= 2
        /\ series[p].pure
        /\ series[p].invocations = 1
        /\ lastEvent[p] > series[p].startedAt
        /\ series[p].invokedAt >= lastEvent[p] + DEBOUNCE_MS

\* ---------------------------------------------------------------------
\* The life of an index job and the order of the phases of a run.

Terminal == {"completed", "failed"}

\* C11: a job is created with status running and no files counted; its
\* status changes at most once, from running to completed or to failed; once
\* it has left running, no step changes its status, filesTotal or
\* filesProcessed.
C11_JobLifecycle ==
    [][\A j \in Jobs :
          /\ (jobs[j].status = "none" /\ jobs'[j] # jobs[j])
                => jobs'[j] = [NoJob EXCEPT !.status = "running"]
          /\ jobs[j].status = "running"
                => jobs'[j].status \in {"running"} \cup Terminal
          /\ jobs[j].status \in Terminal
                => /\ jobs'[j].status = jobs[j].status
                   /\ jobs'[j].filesTotal = jobs[j].filesTotal
                   /\ jobs'[j].filesProcessed = jobs[j].filesProcessed]_vars

\* A job that left running after counting files, while the
\* pipeline has gone on to the link phase of a later run.
C11_Witness ==
    /\ job = 2
    /\ jobs[1].status \in Terminal
    /\ jobs[1].filesProcessed > 0
    /\ jobs[2].status = "running"
    /\ pc = "linkCalls"

\* The positions of the run's record holding a step of one of the kinds.
StepsOf(kinds) == {i \in DOMAIN runLog : runLog[i].step \in kinds}
LinkSteps == {"createInheritanceLinks", "createCallLinks"}
InsideIndexFile == {"delete", "repo", "describe", "merge", "commit"}

\* The merged ImportsMap of a pre-scan that read the files of the set.
MergedMap(readable) ==
    LET InGroup(f) == f \in readable
    IN  preScanGroup(SelectSeq(files, InGroup), content, 1)

\* C12: within one run, an indexFile call starts or ends only after the
\* pre-scan of the collected files has finished and importsMap holds its
\* merged result, and a linking batch is issued only after the indexFile
\* call of every collected file has ended.
C12_PhaseBarriers ==
    /\ (pc \in InsideIndexFile \/ (pc # "idle" /\ StepsOf({"indexFile"}) # {}))
          => /\ runLog # <<>>
             /\ runLog[1].step = "preScanAll"
             /\ \E readable \in SUBSET {files[k] : k \in DOMAIN files} :
                   importsMap = MergedMap(readable)
    /\ \A i \in StepsOf(LinkSteps) :
          Cardinality({j \in StepsOf({"indexFile"}) : j < i}) = Len(files)
    /\ pc \in {"linkInh", "linkCalls"} => Cardinality(StepsOf({"indexFile"})) = Len(files)

\* Two files were collected and written, and a linking batch has been issued.
C12_Witness ==
    /\ Len(files) = 2
    /\ StepsOf(LinkSteps) # {}
    /\ importsMap # EmptyImportsMap

EnrichSteps == {"describeFile", "describeDirectory"}

\* C13: within one run, every description or embedding request (a
\* describeFile or describeDirectory step that issued requests) comes after
\* the write step and both linking batches of every written file: when one
\* has been issued the run is past the link phase, and no indexFile call or
\* linking batch follows it.
C13_EnrichmentAfterLinking ==
    /\ (pc # "idle" /\ StepsOf(EnrichSteps) # {}) => pc = "descDirs"
    /\ \A i \in StepsOf(EnrichSteps) :
          \A j \in StepsOf({"indexFile"} \cup LinkSteps) : j < i

\* ---------------------------------------------------------------------
\* Call linking.

\* The run that ended last completed without a read, store or provider
\* failure; allParsedFiles, importsMap and graph are what it left.
CleanRunEnded ==
    /\ pc = "idle"
    /\ job > 0
    /\ jobs[job].status = "completed"
    /\ runClean

WrittenPaths == {allParsedFiles[k].path : k \in DOMAIN allParsedFiles}

\* A CALLS edge from function caller of file f to function callee of file g.
HasCall(gr, caller, f, callee, g) ==
    \E e \in gr.edges :
        /\ e.type = "CALLS"
        /\ e.from.label = "Function" /\ e.from.name = caller /\ e.from.path = f
        /\ e.to.label = "Function" /\ e.to.name = callee /\ e.to.path = g

\* C14: after a run that completed without a failure, for every call made
\* inside a function of a written file A to a name that the pre-scan
\* ImportsMap lists at another written file B, the graph holds a CALLS edge
\* from the calling function in A to the function of that name in B.
C14_CrossFileCall ==
    CleanRunEnded =>
        \A k \in DOMAIN allParsedFiles :
            LET pf == allParsedFiles[k]
                calls == parse(pf.content).calls
            IN  \A i \in DOMAIN calls :
                  \A l \in DOMAIN importsMap[calls[i].name] :
                     LET loc == importsMap[calls[i].name][l]
                     IN  (/\ calls[i].callerName # ""
                          /\ loc.filePath # pf.path
                          /\ loc.filePath \in WrittenPaths)
                            => HasCall(graph, calls[i].callerName, pf.path,
                                       calls[i].name, loc.filePath)

\* The calls of a written file that neither resolveSymbol nor the file's own
\* declarations find.
Unresolved(pf) ==
    {i \in DOMAIN parse(pf.content).calls :
        LET call == parse(pf.content).calls[i]
        IN  /\ resolveSymbol(call.name, pf.content, pf.path, importsMap) = NoLocation
            /\ \A k \in DOMAIN parse(pf.content).functions :
                  parse(pf.content).functions[k].name # call.name}

\* A CALLS edge merged for the call site at the line, from a function of f.
CallEdgeAt(gr, caller, f, line) ==
    \E e \in gr.edges :
        /\ e.type = "CALLS" /\ e.line = line
        /\ e.from.name = caller /\ e.from.path = f

\* C15: once the call-linking batch of a written file has succeeded, no
\* CALLS edge exists for any of its calls whose callee is neither resolved nor
\* declared in the file, while its other calls are linked; the pass goes on
\* over every written file and a run that ended this way ended completed.
C15_UnresolvedCallSkipped ==
    /\ \A s \in StepsOf({"createCallLinks"}) : \A k \in DOMAIN allParsedFiles :
          (runLog[s].ok /\ allParsedFiles[k].path = runLog[s].file) =>
             LET pf == allParsedFiles[k]
                 calls == parse(pf.content).calls
             IN  \A i \in DOMAIN calls :
                    IF i \in Unresolved(pf)
                    THEN ~CallEdgeAt(graph, calls[i].callerName, pf.path,
                                     calls[i].lineNumber)
                    ELSE calleeNodes(graph, calls[i], pf.content, pf.path, importsMap) # {}
                            => CallEdgeAt(graph, calls[i].callerName, pf.path,
                                          calls[i].lineNumber)
    /\ (pc = "idle" /\ StepsOf({"createCallLinks"}) # {})
          => /\ jobs[job].status = "completed"
             /\ Cardinality(StepsOf({"createCallLinks"})) = Len(allParsedFiles)

\* A completed run that linked a.ts while d/b.ts was absent: the calls of bar
\* to baz and to log were skipped and its call to foo was linked.
C15_Witness ==
    /\ pc = "idle"
    /\ job > 0
    /\ jobs[job].status = "completed"
    /\ \E s \in StepsOf({"createCallLinks"}) : runLog[s].ok /\ runLog[s].file = FileA
    /\ \E k \in DOMAIN allParsedFiles :
          /\ allParsedFiles[k].content = "A1"
          /\ Cardinality(Unresolved(allParsedFiles[k])) = 2
    /\ CallEdgeAt(graph, "bar", FileA, 4)

CallEdges(gr) == {e \in gr.edges : e.type = "CALLS"}

\* The first run, on an empty graph, indexed a.ts alone, holding the text in
\* which bar calls foo declared in the same file, and ended without failure.
SingleFileRun ==
    /\ CleanRunEnded
    /\ job = 1
    /\ files = <<FileA>>
    /\ allParsedFiles = <<[path |-> FileA, content |-> "A1"]>>

\* C16: indexing a directory with the single file in which bar calls foo,
\* declared in the same file, yields exactly the Function nodes foo and bar
\* and exactly one CALLS edge, from bar to foo, whose line_number is the line
\* of the call site.
C16_SingleFileCall ==
    SingleFileRun =>
        /\ MatchLabel(graph, "Function")
              = {FunctionNode("foo", FileA, 1), FunctionNode("bar", FileA, 3)}
        /\ CallEdges(graph)
              = {Edge("CALLS", FunctionNode("bar", FileA, 3),
                      FunctionNode("foo", FileA, 1), 4)}

\* Such a run has ended and its graph holds a CALLS edge.
C16_Witness == SingleFileRun /\ CallEdges(graph) # {}

\* ---------------------------------------------------------------------
\* Failures inside the write loop and the link loops.

\* The files whose indexFile call of the current run threw, and returned.
Threw == {runLog[i].file : i \in {j \in StepsOf({"indexFile"}) : ~runLog[j].ok}}
Returned == {runLog[i].file : i \in {j \in StepsOf({"indexFile"}) : runLog[j].ok}}
Linked == {runLog[i].file : i \in StepsOf(LinkSteps)}
PastWriteLoop == pc \in {"linkInh", "linkCalls", "descDirs"}

\* C17: a throw of indexFile for one file is caught inside the write loop:
\* the file is not among the files handed to the linking passes, every other
\* collected file still gets its indexFile call and is handed to them when
\* its call returned, and the run goes on to the link phase instead of
\* failing.
C17_WriteErrorCaught ==
    /\ Threw \cap WrittenPaths = {}
    /\ Threw \cap Linked = {}
    /\ PastWriteLoop =>
          /\ Threw \cup Returned = {files[k] : k \in DOMAIN files}
          /\ WrittenPaths = Returned
    /\ (pc = "idle" /\ job > 0 /\ Threw # {}) => jobs[job].status = "completed"

\* indexFile threw for a.ts; d/b.ts was written and has been linked.
C17_Witness ==
    /\ Threw = {FileA}
    /\ Returned = {FileB}
    /\ FileNode(FileB) \in graph.nodes
    /\ pc = "descDirs"
    /\ Linked = {FileB}

IsLinkStep(s) == s.step \in LinkSteps
LinkLog == SelectSeq(runLog, IsLinkStep)

\* The linking batches of a run over the written files: the inheritance
\* batch of each file in order, then the call batch of each file in order.
ExpectedLinks ==
    LET n == Len(allParsedFiles)
    IN  [k \in 1..(2 * n) |->
            IF k <= n
            THEN [step |-> "createInheritanceLinks", file |-> allParsedFiles[k].path]
            ELSE [step |-> "createCallLinks", file |-> allParsedFiles[k - n].path]]

\* C18: the linking batches are issued in two passes, inheritance links for
\* every written file and then call links for every written file, and a
\* batch is issued for every written file in both passes whether or not an
\* earlier batch failed.
C18_TwoLinkPasses ==
    /\ Len(LinkLog) <= Len(ExpectedLinks)
    /\ \A k \in DOMAIN LinkLog :
          /\ LinkLog[k].step = ExpectedLinks[k].step
          /\ LinkLog[k].file = ExpectedLinks[k].file
    /\ pc \in {"descDirs", "idle"} => Len(LinkLog) = Len(ExpectedLinks)

\* The inheritance batch of a.ts failed; the inheritance batch of d/b.ts and
\* the call batches of both files were issued and succeeded, and the call
\* links of a.ts exist.
C18_Witness ==
    /\ pc = "descDirs"
    /\ Len(LinkLog) = 4
    /\ ~LinkLog[1].ok
    /\ LinkLog[2].ok /\ LinkLog[3].ok /\ LinkLog[4].ok
    /\ HasCall(graph, "bar", FileA, "baz", FileB)

(***************************************************************************)
(* Symbol resolver claims                                                  *)
(***************************************************************************)

Range(seq) == {seq[k] : k \in DOMAIN seq}

\* The candidate locations of a call: those found through the import when
\* there are any, else the entry under the requested name.
Candidates ==
    LET viaImport == importLocations(resolveCall.name, resolveCall.imports,
                                     resolveCall.importsMap)
    IN  IF viaImport # <<>> THEN viaImport
        ELSE mapGet(resolveCall.importsMap, resolveCall.name)

\* C19: whenever the candidate locations of the requested name hold a
\* location in a file other than the referencing file, the location
\* resolveSymbol returns is in a file other than the referencing file,
\* whether the candidates were found through an import or by direct lookup.
C19_PrefersOtherFile ==
    (/\ resolveResult.done
     /\ \E l \in Range(Candidates) : l.filePath # resolveCall.path)
        => resolveResult.location.filePath # resolveCall.path

\* The imports of the file whose name or alias is the requested name, and
\* the non-empty entries of the map under the requested name, the import's
\* name or the import's alias.
MatchingImports ==
    {k \in DOMAIN resolveCall.imports :
        \/ resolveCall.imports[k].name = resolveCall.name
        \/ resolveCall.imports[k].alias = resolveCall.name}
EntriesOf(k) ==
    {mapGet(resolveCall.importsMap, n) :
        n \in {resolveCall.name, resolveCall.imports[k].name, resolveCall.imports[k].alias}}
      \ {<<>>}

\* C20: if the file has an import whose name or alias is the requested name
\* and the map has a non-empty entry under the requested name, the import's
\* name or the import's alias, the result is a location of such an entry;
\* otherwise, if the map has a non-empty entry under the requested name, the
\* result is a location of that entry; otherwise the result is undefined.
C20_ResolutionOrder ==
    resolveResult.done =>
        IF \E k \in MatchingImports : EntriesOf(k) # {}
        THEN \E k \in MatchingImports : \E e \in EntriesOf(k) :
                resolveResult.location \in Range(e)
        ELSE IF mapGet(resolveCall.importsMap, resolveCall.name) # <<>>
        THEN resolveResult.location
                \in Range(mapGet(resolveCall.importsMap, resolveCall.name))
        ELSE resolveResult.location = NoLocation

(***************************************************************************)
(* Inheritance linking                                                     *)
(***************************************************************************)

\* The link phase of the current run is over.
LinkPhaseOver == pc = "descDirs"

\* C21: once the link phase is over, every INHERITS or IMPLEMENTS edge from
\* a class of a written file to a class of a name the class declares as base
\* or interface ends at the file the Symbol Resolver returns for that name,
\* and there is no such edge when the resolver returns nothing.
C21_InheritanceViaResolver ==
    LinkPhaseOver =>
        \A k \in DOMAIN allParsedFiles :
            LET pf == allParsedFiles[k]
                classes == parse(pf.content).classes
            IN  \A i \in DOMAIN classes : \A e \in graph.edges :
                   (/\ e.type \in {"INHERITS", "IMPLEMENTS"}
                    /\ e.from = ClassNode(classes[i].name, pf.path, classes[i].lineNumber))
                      => LET loc == resolveSymbol(e.to.name, pf.content, pf.path, importsMap)
                         IN  loc # NoLocation /\ e.to.path = loc.filePath


(***************************************************************************)
(* C22: deleteRepository removes the repository                            *)
(***************************************************************************)

LinkTypes == {"CALLS", "INHERITS", "IMPLEMENTS"}

\* The link edges of gr that start at a function or class of file f.
LinksFrom(gr, f) == {e \in gr.edges : e.type \in LinkTypes /\ e.from.path = f}

\* C23: after the single-file re-index of F that a settled add or change
\* event starts, every CALLS, INHERITS and IMPLEMENTS edge from a function or
\* class of F that a full indexDirectory run would create is in the graph.
C23_ReindexRecomputesLinks ==
    lastOp.op = "indexFile" =>
        LinksFrom(indexDirectory(store, tree), lastOp.file) \subseteq store.edges


(***************************************************************************)
(* C24: indexDirectory returns the job id while the job is in progress     *)
(***************************************************************************)

\* The indexDirectory call that created job j has returned its id.
CallReturned(j) == job > j \/ (job = j /\ pc = "idle")

\* C24: the caller of indexDirectory receives the job id while the job is
\* in progress and the job reaches completed or failed later: a job leaves
\* running only after the call that created it has returned.
C24_ReturnsWhileRunning ==
    [][\A j \in Jobs :
          (jobs[j].status = "running" /\ jobs'[j].status \in Terminal)
             => CallReturned(j)]_vars


(***************************************************************************)
(* C25: the content-hash gate                                              *)
(***************************************************************************)

\* The stored hash of the nodes M equals the hash of the current text.
HashUnchanged(g, M, text) == getContentHash(g, M) = computeHash(text)

\* The directory the next describeDirectory call is for.
NextDir == dirsOf(files)[idx]

\* C25: when the stored hash of a node equals the hash of the current text,
\* the gate issues no description or embedding request for it and writes
\* nothing to it: a describeDirectory call for such a directory changes
\* neither the graph nor the requests made, and describeFile neither
\* requests a description for such a symbol or file nor changes its node.
C25_HashGate ==
    [][/\ (/\ pc = "descDirs"
           /\ idx <= Len(dirsOf(files))
           /\ idx' = idx + 1
           /\ HashUnchanged(graph, MatchPath(graph, "Directory", NextDir), fileList(NextDir)))
          => (graph' = graph /\ runLog' = runLog /\ faults' = faults)
       /\ (pc = "describe" /\ pc' = "merge")
          => \A k \in DOMAIN Symbols(parsed, files[idx]) :
                LET sym == Symbols(parsed, files[idx])[k]
                    M == SymbolMatch(View, sym, files[idx])
                IN  HashUnchanged(View, M, sym.text)
                      => /\ k \notin descRequests'.req
                         /\ \A m \in M : tx'.g.hash[m] = View.hash[m]]_vars

\* A describeDirectory call has been skipped at the gate: the directory's
\* stored hash is the hash of its file list and the run made no request for it.
C25_Witness ==
    /\ pc = "descDirs"
    /\ \E k \in 1..(idx - 1) :
          LET dir == dirsOf(files)[k]
          IN  /\ k <= Len(dirsOf(files))
              /\ HashUnchanged(graph, MatchPath(graph, "Directory", dir), fileList(dir))
              /\ \A i \in DOMAIN runLog :
                    ~(runLog[i].step = "describeDirectory" /\ runLog[i].file = dir)


(***************************************************************************)
(* C26: a successful enrichment is on the node when indexFile returns      *)
(***************************************************************************)

\* C26: when indexFile returns and the description and the embedding were
\* generated for every function and class describeFile asked for (their
\* stored hash differed), the graph node of each of them carries what the
\* one setNodeEmbedding update wrote: the new content hash.
C26_EnrichmentWritten ==
    [][(pc = "commit" /\ pc' = "write" /\ lastCall'.outcome = "ok" /\ descRequests.stored)
          => \A k \in descRequests.req :
                LET sym == Symbols(parsed, files[idx])[k]
                    M == SymbolMatch(graph', sym, files[idx])
                IN  sym.label \in {"Function", "Class"}
                      => /\ M # {}
                         /\ \A n \in M : graph'.hash[n] = computeHash(sym.text)]_vars


(***************************************************************************)
(* C27: a failed enrichment step does not stop describeFile                *)
(***************************************************************************)

\* The step is a describeFile call in which the enrichment of some symbol
\* failed.
DescribeFileWithFailure ==
    /\ pc = "describe"
    /\ Len(runLog') = Len(runLog) + 1
    /\ runLog'[Len(runLog')] = Step("describeFile", files[idx], FALSE)

RetryableFailures == {"retryable", "throw", "badjson"}

\* The step ends an executeTask call.
TaskEnded == lastEnd' # lastEnd

\* Task t neither waits in the queue nor is being executed after the step.
NotRequeued(t) ==
    /\ \A k \in DOMAIN queue' : queue'[k] # t
    /\ \A i \in Slots : <<t, i>> \notin running'

\* C28: a task whose execution ends in a retryable failure gets its retry
\* counter incremented by one and a backoff timer that re-enqueues it, as
\* long as the counter is below maxRetries; when the counter equals
\* maxRetries the caller is resolved with null and the task is not
\* re-enqueued.  A backoff timer that fires puts its task back in the queue
\* (from where it may be started in the same step).
C28_RetryableFailure ==
    [][/\ (TaskEnded /\ lastEnd'.outcome \in RetryableFailures)
          => LET t == lastEnd'.task
             IN  IF retries[t] < maxRetries
                 THEN /\ retries'[t] = retries[t] + 1
                      /\ timers'[t] = timers[t] + 1
                      /\ resolveCalls'[t] = resolveCalls[t]
                      /\ result'[t] = "none"
                 ELSE /\ retries[t] = maxRetries
                      /\ retries'[t] = retries[t]
                      /\ timers'[t] = timers[t]
                      /\ resolveCalls'[t] = resolveCalls[t] + 1
                      /\ result'[t] = "null"
                      /\ NotRequeued(t)
       /\ \A t \in Tasks :
             timers'[t] < timers[t]
                => \/ \E k \in DOMAIN queue' : queue'[k] = t
                   \/ \E i \in Slots : <<t, i>> \in running']_vars

\* A task was retried maxRetries times and its last execution ended in a
\* retryable failure: the caller got null.
C28_Witness ==
    /\ lastEnd.outcome \in RetryableFailures
    /\ lastEnd.exec = maxRetries + 1
    /\ retries[lastEnd.task] = maxRetries
    /\ result[lastEnd.task] = "null"

\* C29: a task whose execution ends in a non-retryable failure resolves its
\* caller with null in that step; its retry counter is unchanged, no backoff
\* timer is started and the task is not re-enqueued.
C29_FatalFailure ==
    [][(TaskEnded /\ lastEnd'.outcome = "fatal")
          => LET t == lastEnd'.task
             IN  /\ resolveCalls'[t] = resolveCalls[t] + 1
                 /\ result'[t] = "null"
                 /\ retries' = retries
                 /\ timers' = timers
                 /\ NotRequeued(t)]_vars

\* The first execution of a task ended in a non-retryable failure.
C29_Witness ==
    /\ lastEnd.outcome = "fatal"
    /\ lastEnd.exec = 1
    /\ retries[lastEnd.task] = 0
    /\ result[lastEnd.task] = "null"


(***************************************************************************)
(* C30: watch and unwatch are idempotent                                   *)
(***************************************************************************)

\* C30: in every state watch on a watched root returns the watcher state as
\* it is (no second subscription, same watched roots, same import-map
\* cache), and so does unwatch on a root that is not watched.
C30_WatchIdempotent ==
    \A r \in WatchRoots :
        /\ r \in watchers => watchOn(WatchState, r) = WatchState
        /\ r \notin watchers => unwatchOn(WatchState, r) = WatchState
        /\ watchOn(watchOn(WatchState, r), r) = watchOn(WatchState, r)
        /\ subscriptions[r] = IF r \in watchers THEN 1 ELSE 0

\* A root is watched, with its one subscription and its cached import map.
C30_Witness ==
    \E r \in WatchRoots :
        /\ r \in watchers
        /\ r \in importsMapCache
        /\ subscriptions[r] = 1
        /\ watchOn(WatchState, r) = WatchState

(***************************************************************************)
(* C31, C37: queue order and work conservation                             *)
(***************************************************************************)

\* The providers of scheduler state s that have spare capacity.
Spare(s) == {i \in Slots : s.pool[i].active < s.pool[i].limit}

\* The executeTask calls the step starts.
Dispatched == running' \ running

\* A drain of scheduler state s (the state processQueue is called in): the
\* head of the queue is started on the first provider with spare capacity.
HeadToFirstSpare(s) ==
    (s.queue # <<>> /\ Spare(s) # {})
        => <<Head(s.queue), CHOOSE i \in Spare(s) : \A j \in Spare(s) : i <= j>>
               \in Dispatched

\* C31: of two tasks that were never retried, the one submitted first is
\* dispatched no later than the other (within one drain: to an earlier
\* provider); and on every drain, whether it follows a submission, the end
\* of an executeTask call or a retry timer, the task at the head of the
\* queue goes to the first provider in pool order with spare capacity.
C31_FifoModuloRetries ==
    /\ [](\A u, t \in Tasks :
             (u < t /\ retries[u] = 0 /\ retries[t] = 0 /\ execs[t] > 0) => execs[u] > 0)
    /\ [][/\ \A u, t \in Tasks, j \in Slots :
                (u < t /\ retries'[u] = 0 /\ retries'[t] = 0
                       /\ execs[u] = 0 /\ <<t, j>> \in Dispatched)
                   => \E i \in Slots : i < j /\ <<u, i>> \in Dispatched
          /\ \A t \in Tasks :
                (apiKey /\ generateDescription(t))
                   => HeadToFirstSpare([SchedState EXCEPT !.queue = Append(@, t)])
          /\ \A t \in Tasks, i \in Slots, o \in Outcomes :
                executeTaskFinish(t, i, o)
                   => HeadToFirstSpare([SchedState EXCEPT !.pool[i].active = @ - 1,
                                                          !.running = @ \ {<<t, i>>}])
          /\ \A t \in Tasks :
                retryTimerFires(t)
                   => HeadToFirstSpare([SchedState EXCEPT !.queue = Append(@, t)])]_vars

\* Two tasks that were never retried waited in the queue together: the one
\* submitted first was started when an earlier task left its provider, the
\* other still waits.
C31_Witness ==
    \E w, u, t \in Tasks :
        /\ w < u /\ u < t
        /\ execs[w] > 0 /\ SlotsOf(w) = {}
        /\ retries[u] = 0 /\ execs[u] = 1 /\ SlotsOf(u) # {}
        /\ retries[t] = 0 /\ execs[t] = 0 /\ InQueue(t) = 1

\* C37: in every state, each of them reached by a step that ends with a
\* queue drain (a submission, the end of an executeTask call, a retry
\* timer), the pending queue is empty or every provider is at its
\* concurrency limit: no task waits while a provider has spare capacity.
C37_WorkConserving ==
    queue = <<>> \/ Spare(SchedState) = {}

\* A task ended and its provider was refilled from the queue, where another
\* task still waits with every provider at its limit.
C37_Witness ==
    /\ queue # <<>>
    /\ Spare(SchedState) = {}
    /\ \E t \in Tasks : resolveCalls[t] > 0
    /\ \E t \in Tasks : retries[t] > 0 /\ InQueue(t) = 1

(***************************************************************************)
(* C32, C33, C34, C38: the settled actions of the watcher                  *)
(***************************************************************************)

\* The number of actions of path p that were started and have not ended.
InProgress(p) == inflight[p].index + inflight[p].remove

\* C32: for the events of one path that fall in one quiet window, whatever
\* their kinds, exactly one timer is pending or exactly one action was
\* started, and it is the action of the last event: indexFile when that was
\* add or change, removeFile when it was unlink.
C32_LastEventWins ==
    \A p \in WatchPaths :
        series[p].events >= 1 =>
            /\ series[p].invocations + series[p].removals + Cardinality(TimersOf(p)) = 1
            /\ series[p].last \in {"add", "change"} =>
                  /\ series[p].removals = 0
                  /\ \A t \in TimersOf(p) : t.kind = "index"
            /\ series[p].last = "unlink" =>
                  /\ series[p].invocations = 0
                  /\ \A t \in TimersOf(p) : t.kind = "remove"

\* An unlink followed by a change within one quiet window led to indexFile
\* alone.
C32_Witness ==
    \E p \in WatchPaths :
        /\ series[p].events = 2
        /\ ~series[p].pure
        /\ series[p].last = "change"
        /\ series[p].invocations = 1
        /\ series[p].removals = 0
        /\ TimersOf(p) = {}

\* C33: for every path at most one watcher-triggered action (indexFile or
\* removeFile) is in progress: no action of a path starts while an earlier
\* action of that path has not ended.
C33_OneActionPerPath ==
    \A p \in WatchPaths : InProgress(p) <= 1

\* The step starts an action of path p (the timer callback calls indexFile
\* or removeFile).
Starts(p) == inflight'[p].index + inflight'[p].remove > InProgress(p)

\* C38: no step starts indexFile or removeFile for a path under a root that
\* is not watched (unwatch or closeAll has returned), also when the event
\* that set the timer was received while the root was watched.
C38_NoActionAfterUnwatch ==
    [][\A p \in WatchPaths : Starts(p) => RepoPath \in watchers]_vars

\* The step ends an action of the watcher (indexFile or removeFile returned
\* or threw).
ActionEnded ==
    \E p \in WatchPaths, k \in {"index", "remove"} : inflight'[p][k] < inflight[p][k]

\* C34: a step in which indexFile or removeFile throws inside a settled
\* action leaves the watcher running: the watched roots, their
\* subscriptions and import maps and every pending timer, of the same path
\* and of the others, are as before.  In every state the timer entry of a
\* path is empty or holds a pending timer (the entry of a timer that fired
\* is cleared), and every pending timer is the entry of its path, so that
\* it leads to its action.
C34_ErrorCaught ==
    /\ [][(ActionEnded /\ ~lastAction'.ok)
             => /\ watchers' = watchers
                /\ importsMapCache' = importsMapCache
                /\ subscriptions' = subscriptions
                /\ debounceTimers' = debounceTimers
                /\ liveTimers' = liveTimers]_vars
    /\ [](\A p \in WatchPaths :
             debounceTimers[p] = NoTimer \/ debounceTimers[p] \in liveTimers)
    /\ [](\A t \in liveTimers : debounceTimers[t.path] = t)

\* indexFile threw for a path whose next event has led to a second
\* indexFile call, while the timer of another path is pending.
C34_Witness ==
    /\ ~lastAction.ok
    /\ series[lastAction.path].invocations = 1
    /\ series[lastAction.path].removals = 0
    /\ series[lastAction.path].startedAt >= DEBOUNCE_MS
    /\ inflight[lastAction.path].index = 1
    /\ debounceTimers[lastAction.path] = NoTimer
    /\ \E q \in WatchPaths : q # lastAction.path /\ debounceTimers[q] \in liveTimers

(***************************************************************************)
(* C35: a failed enrichment writes nothing                                 *)
(***************************************************************************)

\* The node sets an enrichment addresses in graph g: a symbol of a file by
\* label, path and name, a file or a directory by label and path.
EnrichKeys(g) ==
    {MatchNamePath(g, n.label, n.name, n.path) : n \in {m \in g.nodes : m.label \in {"Function", "Class"}}}
        \cup {MatchPath(g, n.label, n.path) : n \in {m \in g.nodes : m.label \in {"File", "Directory"}}}

\* The texts a node can be hashed from.
EnrichTexts == {"a.ts", "b.ts", "function foo() {}"}

\* The last step of the run is a describeDirectory whose description or
\* embedding failed.
DirectoryEnrichmentFailed ==
    /\ runLog # <<>>
    /\ runLog[Len(runLog)].step = "describeDirectory"
    /\ ~runLog[Len(runLog)].ok

\* C35: content_hash, description and embedding are written by the one SET
\* of setNodeEmbedding (the stored hash stands for the three).  On every
\* graph the store can hold, for every node an enrichment addresses and
\* every text, an enrichment whose description is null or throws, or whose
\* embedding throws, returns the graph as it is, so that the gate stays open
\* and the next pass requests the node again; and every describeDirectory
\* step whose enrichment fails leaves the graph unchanged.
C35_FailedEnrichmentWritesNothing ==
    /\ [](\A M \in EnrichKeys(graph), text \in EnrichTexts,
             d \in DescriberResults, e \in EmbedderResults :
             ~reachesStore(d, e)
                => /\ enrich(graph, M, text, d, e) = graph
                   /\ gateOpen(graph, M, text)
                         => gateOpen(enrich(graph, M, text, d, e), M, text))
    /\ [][(runLog' # runLog /\ DirectoryEnrichmentFailed')
             => /\ graph' = graph
                /\ LET dir == runLog'[Len(runLog')].file
                   IN  gateOpen(graph', MatchPath(graph', "Directory", dir), fileList(dir))]_vars

\* The enrichment of a directory has just failed: its node is in the graph
\* without a stored hash, and the gate is open for the next pass.
C35_Witness ==
    /\ DirectoryEnrichmentFailed
    /\ LET dir == runLog[Len(runLog)].file
           M == MatchPath(graph, "Directory", dir)
       IN  /\ M # {}
           /\ getContentHash(graph, M) = NoHash
           /\ gateOpen(graph, M, fileList(dir))

(***************************************************************************)
(* C40: deleteRepository and the other repository                          *)
(***************************************************************************)

\* The paths of the nodes of a repository: its root, its directories and
\* its files.
PathsUnder(root) ==
    IF root = OtherRepo THEN {OtherRepo, FileC} ELSE {RepoPath, "/r/d", FileA, FileB}

\* The nodes of graph g that belong to the repository at root, and the
\* edges between them.
NodesOf(g, root) == {n \in g.nodes : n.path \in PathsUnder(root)}
EdgesOf(g, root) == {e \in g.edges : e.from \in NodesOf(g, root) /\ e.to \in NodesOf(g, root)}

\* C40: a deleteRepository(A) step leaves every node of another repository
\* B, B's Repository node among them, and every edge between nodes of B in
\* the graph, whatever links the graph holds between the two.
C40_OtherRepositoryUntouched ==
    [][\A A, B \in {RepoPath, OtherRepo} :
          (A # B /\ lastOp' = Op("deleteRepository", IF A = RepoPath THEN "" ELSE A))
             => /\ NodesOf(store, B) \subseteq store'.nodes
                /\ EdgesOf(store, B) \subseteq store'.edges]_vars

(***************************************************************************)
(* C36: limitConcurrency                                                   *)
(***************************************************************************)

\* C36: at no time are more than `concurrency` of the tasks started and not
\* yet finished.
C36_ConcurrencyBound ==
    Cardinality(Unfinished) <= concurrency

(***************************************************************************)
(* C39: overlapping batches                                                *)
(***************************************************************************)

\* C39: every query issued by the callback of a batch ran in the
\* transaction of that batch: none ran in the transaction of the other
\* batch, none outside any transaction.
C39_QueriesInOwnTransaction ==
    \A q \in queryLog : q.tx = q.batch

====
